---- MODULE Spec2Model ----
(***************************************************************************)
(* Layout and content-fitting engine of PowerPointGenerator                *)
(* (src/powerpoint_generator.py).                                          *)
(*                                                                         *)
(* Text is a sequence of one-character strings, so that len(), split(),    *)
(* lower(), substring search and string formatting are computed, not       *)
(* assumed.  Lengths are fixed-point numbers in 1/80 inch: every area size *)
(* used is a multiple of 1/16 inch, for which the IEEE double arithmetic   *)
(* of the source (w - 0.4, h - 0.2, * 12 * (14/font), * 4.5 * (font/14),   *)
(* n * 1.2, followed by int()) gives the same integers as exact rational   *)
(* arithmetic.                                                             *)
(***************************************************************************)
EXTENDS Integers, Sequences, FiniteSets, TLC

VARIABLES
    content,            \* argument: the list of bullet items
    area_width,         \* argument: area["width"], in 1/80 inch
    area_height,        \* argument: area["height"], in 1/80 inch
    image_path,         \* argument: path of the slide's image ("" = none)
    files,              \* the paths for which os.path.exists() is true
    pc,                 \* "call" before the operation ran, then "returned" or "raised"
    fitted_content,     \* result: the placed items
    overflow_summary,   \* result: the summary of the dropped items
    optimal_font_size,  \* result: the chosen font size
    fallback,           \* TRUE when the result is the one of line 1646 (compression fallback)
    layout_type,        \* result of _auto_select_layout; the layout name a slide was built with
    presentation,       \* self.presentation: whether it was created, and its slides
    current_template,   \* self.current_template
    layout_arg,         \* argument: layout_type of add_smart_image_content_slide
    image_size,         \* the pixel size <<width, height>> of the image file at image_path
    result,             \* return value of the last operation: "None", "True" or "False"
    presentation_data,  \* the dict generate_enhanced_presentation returns, argument of create_from_structured_data
    context,            \* argument of generate_enhanced_presentation
    llm_responses,      \* what the language model answers: to the outline call, and to the content call of each outline slide
    dalle_ok,           \* TRUE when the image generator returns a path for a prompt
    generation_phase,   \* st.session_state.generation_phase: "initial", "questions", "generation" or "complete"
    current_questions,  \* st.session_state.current_questions
    ai_generator,       \* TRUE when st.session_state.ai_generator is a generator (FALSE = None); its current_context is in context
    pp_editor_data,     \* st.session_state.pp_editor_data (EmptyDict = None)
    pp_current_slide_index, \* st.session_state.pp_current_slide_index
    pp_edit_mode        \* st.session_state.pp_edit_mode

fitVars == <<content, area_width, area_height, image_path, files, pc,
             fitted_content, overflow_summary, optimal_font_size, fallback, layout_type>>

deckVars == <<presentation, current_template, layout_arg, image_size, result,
              presentation_data>>

genVars == <<context, llm_responses, dalle_ok>>

chatVars == <<generation_phase, current_questions, ai_generator>>

editorVars == <<pp_editor_data, pp_current_slide_index, pp_edit_mode>>

uiVars == <<chatVars, editorVars>>

vars == <<fitVars, deckVars, genVars, uiVars>>

-----------------------------------------------------------------------------
(* Python's str operations, on sequences of characters *)

Min(a, b) == IF a <= b THEN a ELSE b
Max(a, b) == IF a >= b THEN a ELSE b

\* int(x) of the quotient a / b, b > 0: truncation toward zero
TruncDiv(a, b) == IF a >= 0 THEN a \div b ELSE -((-a) \div b)

UpperChars == <<"A","B","C","D","E","F","G","H","I","J","K","L","M","N","O","P","Q","R","S","T","U","V","W","X","Y","Z","Ứ">>
LowerChars == <<"a","b","c","d","e","f","g","h","i","j","k","l","m","n","o","p","q","r","s","t","u","v","w","x","y","z","ứ">>

UpperSet == {UpperChars[k] : k \in 1..Len(UpperChars)}

LowerChar(c) ==
    IF c \in UpperSet
    THEN LowerChars[CHOOSE k \in 1..Len(UpperChars) : UpperChars[k] = c]
    ELSE c

\* s.lower()
Lower(s) == [i \in 1..Len(s) |-> LowerChar(s[i])]

\* sub in s
Contains(s, sub) ==
    \E i \in 0..(Len(s) - Len(sub)) : \A j \in 1..Len(sub) : s[i + j] = sub[j]

IsSpace(c) == c \in {" ", "\t", "\n"}

\* sep.join(parts)
RECURSIVE Join(_, _)
Join(parts, sep) ==
    IF parts = <<>> THEN <<>>
    ELSE IF Len(parts) = 1 THEN parts[1]
    ELSE parts[1] \o sep \o Join(Tail(parts), sep)

\* s.split(): the maximal runs of non-whitespace characters
RECURSIVE SplitFrom(_, _, _, _)
SplitFrom(s, i, word, acc) ==
    IF i > Len(s) THEN (IF word = <<>> THEN acc ELSE Append(acc, word))
    ELSE IF IsSpace(s[i])
         THEN SplitFrom(s, i + 1, <<>>, IF word = <<>> THEN acc ELSE Append(acc, word))
         ELSE SplitFrom(s, i + 1, Append(word, s[i]), acc)

Split(s) == SplitFrom(s, 1, <<>>, <<>>)

\* s[:n]
Take(s, n) == SubSeq(s, 1, Min(n, Len(s)))

\* s.strip()
RECURSIVE LStrip(_)
LStrip(s) == IF s # <<>> /\ IsSpace(Head(s)) THEN LStrip(Tail(s)) ELSE s
RECURSIVE RStrip(_)
RStrip(s) == IF s # <<>> /\ IsSpace(s[Len(s)]) THEN RStrip(SubSeq(s, 1, Len(s) - 1)) ELSE s
Strip(s) == RStrip(LStrip(s))

\* re.split(r'[:.;,]', s)[0]: the text before the first delimiter
RECURSIVE FirstPart(_)
FirstPart(s) ==
    IF s = <<>> \/ Head(s) \in {":", ".", ";", ","} THEN <<>>
    ELSE <<Head(s)>> \o FirstPart(Tail(s))

\* str(n) of a natural number
Digits == <<"0","1","2","3","4","5","6","7","8","9">>
RECURSIVE Decimal(_)
Decimal(n) ==
    IF n < 10 THEN <<Digits[n + 1]>>
    ELSE Decimal(n \div 10) \o <<Digits[(n % 10) + 1]>>

-----------------------------------------------------------------------------
(* _create_perfect_overflow_summary *)

\* topics: the first two words of each of the first two remaining items
RECURSIVE Topics(_)
Topics(items) ==
    IF items = <<>> THEN <<>>
    ELSE LET words == Take(Split(Head(items)), 2)
         IN  (IF words # <<>> THEN <<Join(words, <<" ">>)>> ELSE <<>>)
             \o Topics(Tail(items))

\* the summary with the topics only, without the branch of line 1765
SummaryTopicsOnly(remaining_items) ==
    LET topics == Topics(Take(remaining_items, 2))
    IN  IF topics # <<>> THEN <<"+"," ">> \o Join(topics, <<","," ">>) ELSE <<>>

_create_perfect_overflow_summary(remaining_items) ==
    LET count == Len(remaining_items)
        topics == Topics(Take(remaining_items, 2))
        all_text == Lower(Join(remaining_items, <<" ">>))
    IN  IF count <= 2
        THEN IF topics # <<>>
             THEN <<"+"," ">> \o Join(topics, <<","," ">>)
             ELSE <<"+"," ">> \o Decimal(count) \o <<" ","m","ụ","c"," ","k","h","á","c">>
        ELSE IF Contains(all_text, <<"p","y","t","h","o","n">>) /\ Contains(all_text, <<"w","e","b">>)
             THEN <<"+"," ">> \o Decimal(count) \o <<" ","m","ụ","c"," ","v","ề"," ","W","e","b"," ","&"," ","P","y","t","h","o","n">>
        ELSE IF Contains(all_text, <<"d","a","t","a">>)
                \/ Contains(all_text, <<"m","a","c","h","i","n","e"," ","l","e","a","r","n","i","n","g">>)
             THEN <<"+"," ">> \o Decimal(count) \o <<" ","m","ụ","c"," ","v","ề"," ","D","a","t","a"," ","S","c","i","e","n","c","e">>
        ELSE IF Contains(all_text, <<"f","r","a","m","e","w","o","r","k">>)
                \/ Contains(all_text, <<"l","i","b","r","a","r","y">>)
             THEN <<"+"," ">> \o Decimal(count) \o <<" ","m","ụ","c"," ","v","ề"," ","F","r","a","m","e","w","o","r","k","s">>
        ELSE IF Contains(all_text, <<"a","p","p","l","i","c","a","t","i","o","n">>)
             THEN <<"+"," ">> \o Decimal(count) \o <<" ","m","ụ","c"," ","v","ề"," ","A","p","p","l","i","c","a","t","i","o","n","s">>
        ELSE <<"+"," ">> \o Decimal(count) \o <<" ","m","ụ","c"," ","q","u","a","n"," ","t","r","ọ","n","g"," ","k","h","á","c">>

-----------------------------------------------------------------------------
(* _smart_compress_content_item *)

\* the leading words kept by the loop of lines 1728-1733
RECURSIVE TakeWords(_, _, _)
TakeWords(words, current_length, limit) ==
    IF words = <<>> THEN <<>>
    ELSE IF current_length + Len(Head(words)) + 1 <= limit
         THEN <<Head(words)>> \o TakeWords(Tail(words), current_length + Len(Head(words)) + 1, limit)
         ELSE <<>>

_smart_compress_content_item(item, max_chars) ==
    IF Len(item) <= max_chars THEN item
    ELSE LET main_part == Strip(FirstPart(item))
             result_words == TakeWords(Split(main_part), 0, max_chars - 10)
             lowered == Lower(main_part)
             ending == IF Contains(lowered, <<"p","y","t","h","o","n">>)
                           THEN <<" ","(","P","y","t","h","o","n",")">>
                       ELSE IF Contains(lowered, <<"f","r","a","m","e","w","o","r","k">>)
                           THEN <<" ","(","F","r","a","m","e","w","o","r","k",")">>
                       ELSE IF Contains(lowered, <<"d","a","t","a">>)
                           THEN <<" ","(","D","a","t","a",")">>
                       ELSE <<" ","(",".",".",".",")">>
         IN  IF Len(main_part) > max_chars /\ result_words # <<>>
             THEN Join(result_words, <<" ">>) \o ending
             ELSE main_part

-----------------------------------------------------------------------------
(* _try_fit_content_with_font and _force_fit_content_with_compression *)

CHARS_PER_INCH_WIDTH == 12
\* LINES_PER_INCH_HEIGHT = 4.5 and LINE_SPACING_FACTOR = 1.2, in tenths
LINES_PER_INCH_HEIGHT_x10 == 45
LINE_SPACING_FACTOR_x10 == 12
\* lengths are in 1/80 inch: the margins of lines 1625-1626 are 0.4 = 32/80 and 0.2 = 16/80
InchUnits == 80
WidthMargin == 32
HeightMargin == 16

\* line 1629
font_sizes_ascending == <<8, 9, 10, 11, 12, 13, 14>>
font_sizes == <<14, 13, 12, 11, 10, 9, 8>>

\* the bullet f"\U0001F538 {item}" of line 1663: one code point (written here as a
\* character of the basic plane) and a space
BulletPrefix == <<"◆", " ">>

\* int(width * chars_per_inch * (14 / font_size))
chars_per_line(width, font_size) ==
    TruncDiv(width * CHARS_PER_INCH_WIDTH * 14, InchUnits * font_size)

\* int(height * lines_per_inch * (font_size / 14))
total_lines_available(height, font_size) ==
    TruncDiv(height * LINES_PER_INCH_HEIGHT_x10 * font_size, InchUnits * 10 * 14)

\* math.ceil(n / d) for n >= 0 and d # 0
CeilDiv(n, d) == IF d > 0 THEN (n + d - 1) \div d ELSE -(n \div (-d))

\* lines 1663-1665: int(max(1, ceil(len(bullet_text) / chars_per_line)) * spacing_factor)
lines_needed(item, cpl) ==
    TruncDiv(Max(1, CeilDiv(Len(BulletPrefix \o item), cpl)) * LINE_SPACING_FACTOR_x10, 10)

\* line 1668: one line is reserved for the summary
FitsNoAccumulate(lines_used, needed, available) == needed <= available - 1
Fits(lines_used, needed, available) == lines_used + needed <= available - 1

\* the loop of lines 1661-1678 with "continue" in place of the return of line 1675
RECURSIVE TryWalkSkipping(_, _, _, _, _, _)
TryWalkSkipping(items, i, lines_used, fitted, cpl, available) ==
    IF i > Len(items)
    THEN [fitted |-> fitted,
          summary |-> IF Len(fitted) = Len(items) THEN <<>>
                      ELSE _create_perfect_overflow_summary(
                               SubSeq(items, Len(fitted) + 1, Len(items)))]
    ELSE LET needed == lines_needed(items[i], cpl)
         IN  IF Fits(lines_used, needed, available)
             THEN TryWalkSkipping(items, i + 1, lines_used + needed, Append(fitted, items[i]), cpl, available)
             ELSE TryWalkSkipping(items, i + 1, lines_used, fitted, cpl, available)

\* the loop of lines 1661-1678
RECURSIVE TryWalk(_, _, _, _, _, _)
TryWalk(items, i, lines_used, fitted, cpl, available) ==
    IF i > Len(items) THEN [fitted |-> fitted, summary |-> <<>>]
    ELSE LET needed == lines_needed(items[i], cpl)
         IN  IF Fits(lines_used, needed, available)
             THEN TryWalk(items, i + 1, lines_used + needed, Append(fitted, items[i]), cpl, available)
             ELSE [fitted |-> fitted,
                   summary |-> _create_perfect_overflow_summary(SubSeq(items, i, Len(items)))]

\* the division of line 1664 / 1698 raises ZeroDivisionError at the first item
Raises(items, width, font_size) ==
    items # <<>> /\ chars_per_line(width, font_size) = 0

_try_fit_content_with_font(items, width, height, font_size) ==
    IF Raises(items, width, font_size)
    THEN [raised |-> TRUE, fitted |-> <<>>, summary |-> <<>>]
    ELSE [raised |-> FALSE] @@
         TryWalk(items, 1, 0, <<>>, chars_per_line(width, font_size),
                 total_lines_available(height, font_size))

\* line 1695: at most two lines per item
Compressed(item, cpl) == _smart_compress_content_item(item, cpl * 2)

\* the loop of lines 1693-1710; content_lines_available = total_lines_available - 1
RECURSIVE ForceWalk(_, _, _, _, _, _)
ForceWalk(items, i, lines_used, fitted, cpl, available) ==
    IF i > Len(items) THEN [fitted |-> fitted, summary |-> <<>>]
    ELSE LET compressed_item == Compressed(items[i], cpl)
             needed == lines_needed(compressed_item, cpl)
         IN  IF Fits(lines_used, needed, available)
             THEN ForceWalk(items, i + 1, lines_used + needed, Append(fitted, compressed_item), cpl, available)
             ELSE [fitted |-> fitted,
                   summary |-> _create_perfect_overflow_summary(SubSeq(items, i, Len(items)))]

_force_fit_content_with_compression(items, width, height, font_size) ==
    IF Raises(items, width, font_size)
    THEN [raised |-> TRUE, fitted |-> <<>>, summary |-> <<>>]
    ELSE [raised |-> FALSE] @@
         ForceWalk(items, 1, 0, <<>>, chars_per_line(width, font_size),
                   total_lines_available(height, font_size))

-----------------------------------------------------------------------------
(* _calculate_perfect_content_fit *)

\* line 1638: stop at this font size
StopOnlyWhenAll(fitted, items) == Len(fitted) = Len(items)
StopHere(fitted, items) ==
    Len(fitted) >= Min(3, Len(items)) \/ Len(fitted) = Len(items)

\* the loop of lines 1631-1639 from font_sizes[k] on, then the fallback of lines 1642-1646
RECURSIVE FontLoop(_, _, _, _)
FontLoop(items, usable_width, usable_height, k) ==
    IF k > Len(font_sizes)
    THEN LET f == _force_fit_content_with_compression(items, usable_width, usable_height, 8)
         IN  [raised |-> f.raised, fitted |-> f.fitted, summary |-> f.summary,
              font |-> 8, fallback |-> TRUE]
    ELSE LET t == _try_fit_content_with_font(items, usable_width, usable_height, font_sizes[k])
         IN  IF t.raised
             THEN [raised |-> TRUE, fitted |-> <<>>, summary |-> <<>>,
                   font |-> font_sizes[k], fallback |-> FALSE]
             ELSE IF StopHere(t.fitted, items)
             THEN [raised |-> FALSE, fitted |-> t.fitted, summary |-> t.summary,
                   font |-> font_sizes[k], fallback |-> FALSE]
             ELSE FontLoop(items, usable_width, usable_height, k + 1)

_calculate_perfect_content_fit(items, width, height) ==
    FontLoop(items, width - WidthMargin, height - HeightMargin, 1)

-----------------------------------------------------------------------------
(* _auto_select_layout *)

\* sum(len(str(item)) for item in content)
RECURSIVE content_length(_)
content_length(items) ==
    IF items = <<>> THEN 0 ELSE Len(Head(items)) + content_length(Tail(items))

\* line 937: not image_path or not os.path.exists(image_path)
NoImage(path, existing) == path = "" \/ path \notin existing

ShortContentStrict(items) == content_length(items) < 200 \/ Len(items) < 3
ShortContent(items) == content_length(items) < 200 \/ Len(items) <= 3
MediumContent(items) == content_length(items) < 500 \/ Len(items) <= 6

_auto_select_layout(items, path, existing) ==
    IF NoImage(path, existing) THEN "content_only"
    ELSE IF ShortContent(items) THEN "image_top_content_bottom"
    ELSE IF MediumContent(items) THEN "content_left_image_right"
    ELSE "image_left_content_right"

-----------------------------------------------------------------------------
(* Slide geometry.  An area of layout_configs holds inches, kept here as   *)
(* integers in 1/80 inch; Inches() converts to the EMU of python-pptx      *)
(* (914400 per inch), in which every shape position and size is kept.      *)

EmuPerUnit == 11430
CanvasWidth == 800
CanvasHeight == 600
FramePadding == 4

Inches(units) == units * EmuPerUnit

Rect(x, y, w, h) == [x |-> x, y |-> y, width |-> w, height |-> h]

\* a variant of the table whose image area reaches into the content area
layout_configs_overlapping ==
    [ image_top_content_bottom |->
        [ image_area   |-> Rect(80, 96, 640, 280),
          content_area |-> Rect(40, 336, 720, 240) ],
      content_left_image_right |->
        [ content_area |-> Rect(40, 120, 360, 440),
          image_area   |-> Rect(400, 120, 360, 440) ],
      image_left_content_right |->
        [ image_area   |-> Rect(40, 120, 360, 440),
          content_area |-> Rect(400, 120, 360, 440) ] ]

layout_configs ==
    [ image_top_content_bottom |->
        [ image_area   |-> Rect(80, 96, 640, 240),
          content_area |-> Rect(40, 336, 720, 240) ],
      content_left_image_right |->
        [ content_area |-> Rect(40, 120, 360, 440),
          image_area   |-> Rect(400, 120, 360, 440) ],
      image_left_content_right |->
        [ image_area   |-> Rect(40, 120, 360, 440),
          content_area |-> Rect(400, 120, 360, 440) ] ]

\* the rectangles of the removed layout "content_top_image_bottom"
\* (image below the content)
ExcludedConfig ==
    [ content_area |-> Rect(40, 96, 720, 240),
      image_area   |-> Rect(80, 336, 640, 240) ]

\* a lookup that still serves the removed layout by name
ConfigWithExcluded(name) ==
    IF name \in DOMAIN layout_configs THEN layout_configs[name]
    ELSE IF name = "content_top_image_bottom" THEN ExcludedConfig
    ELSE layout_configs["content_left_image_right"]

\* lines 306-312: the config of the named layout, else the one of
\* content_left_image_right
SelectConfig(name) ==
    IF name \in DOMAIN layout_configs THEN layout_configs[name]
    ELSE layout_configs["content_left_image_right"]

\* one doubling step: <<q, r>> of a * b / c from the pair for a * (b \div 2) / c
DoubleQR(half, a, b, c) ==
    LET odd == b % 2 = 1
        t == 2 * half[2] + (IF odd THEN a % c ELSE 0)
    IN  << 2 * half[1] + (IF odd THEN a \div c ELSE 0) + (t \div c), t % c >>

\* <<q, r>> with a * b = q * c + r and 0 <= r < c, for a, b >= 0 and c > 0,
\* computed by doubling so that no intermediate value leaves 32 bits
RECURSIVE MulDivQR(_, _, _)
MulDivQR(a, b, c) ==
    IF b = 0 THEN <<0, 0>>
    ELSE CHOOSE qr \in { DoubleQR(half, a, b, c) : half \in {MulDivQR(a, b \div 2, c)} } : TRUE

\* int(a * b / c)
MulDiv(a, b, c) == MulDivQR(a, b, c)[1]

\* int(round(a * b / c))
MulDivRound(a, b, c) ==
    LET qr == MulDivQR(a, b, c)
    IN  IF 2 * qr[2] >= c THEN qr[1] + 1 ELSE qr[1]

\* a / b > c / d for a, c >= 0 and b, d > 0, by comparing the continued
\* fractions
RECURSIVE FracGreater(_, _, _, _)
FracGreater(a, b, c, d) ==
    IF a \div b # c \div d THEN a \div b > c \div d
    ELSE IF a % b = 0 THEN FALSE
    ELSE IF c % d = 0 THEN TRUE
    ELSE FracGreater(d, c % d, b, a % b)

-----------------------------------------------------------------------------
(* The presentation *)

NoPresentation == [created |-> FALSE, slides |-> <<>>]

\* a slide: the operation that added it, the layout config applied to it
\* (<<>> when none), the shapes placed in its areas, the return value of the
\* operation, and the entry of the slides list it was added for (0 when none)
Slide(kind, config, shapes, ok) ==
    [kind |-> kind, config |-> config, shapes |-> shapes, ok |-> ok, entry |-> 0]

AppendSlide(pres, slide) == [pres EXCEPT !.slides = Append(@, slide)]

NoFit == [raised |-> FALSE, fitted |-> <<>>, summary |-> <<>>, font |-> 0,
          fallback |-> FALSE]

-----------------------------------------------------------------------------
(* The area placement of a smart image-content slide *)

Shape(kind, left, top, width, height, dash_style) ==
    [kind |-> kind, left |-> left, top |-> top, width |-> width,
     height |-> height, dash_style |-> dash_style]

\* the templates table of __init__
TemplateKeys == {"education", "business", "modern"}

\* add_picture() succeeds: the file exists and is an image
Readable(path, existing, size) ==
    path \in existing /\ size[1] > 0 /\ size[2] > 0

\* the height add_picture() gives a picture of the pixel size `size` when
\* only its width is given
PictureHeight(width, size) == MulDivRound(width, size[2], size[1])

\* line 1048 with the branches exchanged
ImageTaller(img_width, img_height, max_width, max_height) ==
    ~FracGreater(img_width, img_height, max_width, max_height)

\* line 1048: aspect_ratio > area_aspect_ratio
ImageWider(img_width, img_height, max_width, max_height) ==
    FracGreater(img_width, img_height, max_width, max_height)

\* the frame of the earlier version: 0.1 inch of padding
FrameRectLoose(img) ==
    Shape("frame", img.left - Inches(2 * FramePadding), img.top - Inches(2 * FramePadding),
          img.width + Inches(4 * FramePadding), img.height + Inches(4 * FramePadding), 0)

\* lines 1062-1068
FrameRect(img) ==
    Shape("frame", img.left - Inches(FramePadding), img.top - Inches(FramePadding),
          img.width + Inches(2 * FramePadding), img.height + Inches(2 * FramePadding), 0)

\* line 1100: Inches(area["width"] - 0.4); the double 4.5 - 0.4 is just
\* below 4.1, and int() loses one EMU (3749039); 8 - 0.4 is exact
CaptionWidth(area) ==
    IF area.width = 360 THEN Inches(area.width - 32) - 1
    ELSE Inches(area.width - 32)

\* lines 1086-1103: the dashed block over the whole area and its caption
Placeholder(area) ==
    << Shape("placeholder", Inches(area.x), Inches(area.y),
             Inches(area.width), Inches(area.height), 2),
       Shape("caption", Inches(area.x + 16), Inches(area.y + area.height \div 2 - 24),
             CaptionWidth(area), Inches(48), 0) >>

\* lines 1041-1059: the picture after resizing and centering
FittedPicture(area, img_height) ==
    LET max_width == Inches(area.width)
        max_height == Inches(area.height)
        wider == ImageWider(max_width, img_height, max_width, max_height)
        width == IF wider THEN max_width
                 ELSE MulDiv(max_height, max_width, img_height)
        height == IF wider THEN MulDiv(max_width, img_height, max_width)
                  ELSE max_height
    IN  Shape("picture",
              TruncDiv(2 * Inches(area.x) + (max_width - width), 2),
              TruncDiv(2 * Inches(area.y) + (max_height - height), 2),
              width, height, 0)

\* the shapes _add_image_to_area leaves on the slide
_add_image_to_area(path, area, existing, size) ==
    IF ~Readable(path, existing, size) THEN Placeholder(area)
    ELSE LET img_height == PictureHeight(Inches(area.width), size)
         IN  IF img_height = 0
             THEN \* ZeroDivisionError at line 1045, after the picture was added
                  << Shape("picture", Inches(area.x), Inches(area.y),
                           Inches(area.width), 0, 0) >> \o Placeholder(area)
             ELSE LET img == FittedPicture(area, img_height)
                  IN  << img, FrameRect(img) >>

\* line 964: "image_area" in config and image_path
HasImageArea(config, path) == "image_area" \in DOMAIN config /\ path # ""

\* a paragraph of the content box: its font size in points (0 when none is
\* set) and whether it is italic
Paragraph(kind, size, italic) == [kind |-> kind, size |-> size, italic |-> italic]

\* line 1022: Pt(max(8, optimal_font_size - 2))
SummarySameSize(font) == font
summary_font_size(font) == Max(8, font - 2)

\* lines 983-1024: the paragraphs of the content box.  clear() leaves one
\* empty paragraph, which the first item takes; line 1007 raises in the
\* first pass of the loop when current_template is no key of templates
_add_content_to_area(fit, template) ==
    IF fit.fitted # <<>> /\ template \notin TemplateKeys
    THEN << Paragraph("item", fit.font, FALSE) >>
    ELSE ( IF fit.fitted = <<>> THEN << Paragraph("empty", 0, FALSE) >>
           ELSE [i \in 1..Len(fit.fitted) |-> Paragraph("item", fit.font, FALSE)] )
         \o ( IF fit.summary # <<>>
              THEN << Paragraph("summary", summary_font_size(fit.font), TRUE) >>
              ELSE <<>> )

\* lines 977-980 and 983-1024: the text box of the content and its paragraphs
ContentBox(area, fit, template) ==
    [paragraphs |-> _add_content_to_area(fit, template)] @@
    Shape("content", Inches(area.x), Inches(area.y),
          Inches(area.width), Inches(area.height), 0)

\* lines 959-966: the shapes put on the slide for a fit of the content;
\* raised when _calculate_perfect_content_fit or line 1007 raised
SmartLayoutResult(config, fit, path, existing, size, template) ==
    LET area == config.content_area
        raised == fit.raised \/ (fit.fitted # <<>> /\ template \notin TemplateKeys)
        box == ContentBox(area, fit, template)
    IN  [ raised |-> raised,
          fit |-> fit,
          shapes |-> IF fit.raised THEN <<>>
                     ELSE IF raised THEN <<box>>
                     ELSE IF HasImageArea(config, path)
                     THEN <<box>> \o _add_image_to_area(path, config.image_area, existing, size)
                     ELSE <<box>> ]

\* lines 956-966: the fit of the content and the shapes put on the slide
_apply_smart_layout(config, items, path, existing, size, template) ==
    SmartLayoutResult(config,
                      _calculate_perfect_content_fit(items, config.content_area.width,
                                                     config.content_area.height),
                      path, existing, size, template)

\* lines 295-319: the presentation and the return value for a layout
\* name, its config and the applied layout
SmartSlideResult(pres, template, name, config, applied) ==
    IF ~pres.created
    THEN \* line 295: self.slide_layouts is None
         [presentation |-> pres, result |-> "False", layout_type |-> name,
          fit |-> NoFit]
    ELSE IF template \notin TemplateKeys
    THEN \* line 300: _add_decorative_elements looks up templates[current_template]
         [presentation |-> AppendSlide(pres, Slide("smart_image_content", <<>>, <<>>, FALSE)),
          result |-> "False", layout_type |-> name, fit |-> NoFit]
    ELSE [presentation |->
              AppendSlide(pres, Slide("smart_image_content", <<config>>, applied.shapes,
                                     ~applied.raised)),
          result |-> IF applied.raised THEN "False" ELSE "True",
          layout_type |-> name,
          fit |-> IF applied.fit.raised THEN NoFit ELSE applied.fit]

\* lines 306-316: the slide built with the layout of a name
SmartSlideNamed(pres, template, path, items, name, existing, size) ==
    SmartSlideResult(pres, template, name, SelectConfig(name),
                     _apply_smart_layout(SelectConfig(name), items, path, existing,
                                         size, template))

\* lines 290-319: the presentation and the return value after the call
add_smart_image_content_slide(pres, template, path, items, layout, existing, size) ==
    SmartSlideNamed(pres, template, path, items,
                    IF layout = "auto" THEN _auto_select_layout(items, path, existing)
                    ELSE layout,
                    existing, size)

-----------------------------------------------------------------------------
(* The deck built by create_from_structured_data.  A dict is a function    *)
(* whose domain holds the keys that are present.                           *)

\* dict.get(key, default)
Get(d, key, default) == IF key \in DOMAIN d THEN d[key] ELSE default

\* a slide operation on an open presentation: add_slide comes first, so the
\* slide stays when a later step raises and the operation returns False
AddSlide(pres, kind, ok) ==
    [presentation |-> AppendSlide(pres, Slide(kind, <<>>, <<>>, ok)), ok |-> ok]

\* lines 147-173; _apply_title_formatting looks up templates[current_template]
add_title_slide(pres, template) ==
    AddSlide(pres, "title", template \in TemplateKeys)

\* lines 187-217; _add_decorative_elements looks up templates[current_template]
add_modern_content_slide(pres, template) ==
    AddSlide(pres, "modern_content", template \in TemplateKeys)

\* lines 244-273
add_two_column_slide(pres, template) ==
    AddSlide(pres, "two_column", template \in TemplateKeys)

\* lines 339-388: a picture that cannot be added is replaced by a text box
add_image_slide(pres, template) ==
    AddSlide(pres, "image", template \in TemplateKeys)

\* lines 409-454: chart_data is "valid" when add_chart accepts it
add_chart_slide(pres, template, chart_data) ==
    AddSlide(pres, "chart", template \in TemplateKeys /\ chart_data = "valid")

\* lines 468-510: table_data holds the length of each row; the table has
\* len(table_data[0]) columns, and table.cell(i, j) raises IndexError for a
\* longer row
add_table_slide(pres, template, table_data) ==
    AddSlide(pres, "table",
             /\ template \in TemplateKeys
             /\ (table_data # <<>> /\ table_data[1] > 0) =>
                    \A i \in DOMAIN table_data : table_data[i] <= table_data[1])

\* lines 523-531: add_content_slide, that is add_modern_content_slide
add_conclusion_slide(pres, template) ==
    AddSlide(pres, "conclusion", template \in TemplateKeys)

\* lines 695-704
get_slide_count(pres) == IF ~pres.created THEN 0 ELSE Len(pres.slides)

\* lines 549-556
theme_template_map(theme_name) ==
    CASE theme_name = "education_pro" -> "education"
      [] theme_name = "tech_gradient" -> "business"
      [] theme_name = "business_elegant" -> "business"
      [] theme_name = "creative_vibrant" -> "education"
      [] theme_name = "python_modern" -> "business"
      [] OTHER -> "education"

\* lines 545-558
TemplateOf(data) ==
    IF "recommended_theme" \in DOMAIN data
    THEN theme_template_map(Get(data.recommended_theme, "theme_name", "education"))
    ELSE Get(data, "template", "education")

\* the slide types that have a branch in lines 597-634
HandledTypes == {"content", "two_column", "image", "chart", "table"}

\* lines 597-613: a content or two_column entry whose generated
\* image exists becomes a smart image-content slide
SmartEntry(pres, template, entry, slide_type, path, existing, size) ==
    add_smart_image_content_slide(
        pres, template, path,
        IF slide_type = "content" THEN Get(entry, "content", <<>>)
        ELSE Get(entry, "left_content", <<>>) \o Get(entry, "right_content", <<>>),
        Get(entry, "layout_type",
            IF slide_type = "content" THEN "auto" ELSE "content_left_image_right"),
        existing, size)

\* the presentation and the return value of an add_smart_image_content_slide call
SmartOutcome(r) == [presentation |-> r.presentation, ok |-> r.result = "True"]

\* lines 597-634: the branch taken for the entry
EntryOutcome(pres, template, entry, slide_type, path, has_image, existing, size) ==
    IF slide_type \in {"content", "two_column"} /\ has_image
    THEN SmartOutcome(SmartEntry(pres, template, entry, slide_type, path, existing, size))
    ELSE CASE slide_type = "content" -> add_modern_content_slide(pres, template)
           [] slide_type = "two_column" -> add_two_column_slide(pres, template)
           [] slide_type = "image" -> add_image_slide(pres, template)
           [] slide_type = "chart" ->
                add_chart_slide(pres, template, Get(entry, "chart_data", "valid"))
           [] slide_type = "table" ->
                add_table_slide(pres, template, Get(entry, "table_data", <<>>))
           [] OTHER -> [presentation |-> pres, ok |-> TRUE]

\* lines 581-634: one pass of the loop; called tells whether an add_*
\* operation was called
AddEntry(pres, template, entry, existing, size) ==
    [called |-> Get(entry, "type", "content") \in HandledTypes] @@
    EntryOutcome(pres, template, entry,
                 Get(entry, "type", "content"),
                 Get(entry, "generated_image_path", ""),
                 /\ Get(entry, "generated_image_path", "") # ""
                 /\ Get(entry, "generated_image_path", "") \in existing,
                 existing, size)

\* the slide added last was added for entry i
TagLast(pres, i) == [pres EXCEPT !.slides[Len(pres.slides)].entry = i]

\* a loop that gives up at the first add_* operation that returns False
ContinueOnlyIfOk(ok) == ok

\* lines 603-634: the return value of every add_* call is dropped
ContinueAfter(ok) == TRUE

\* the presentation after the pass for entry i, whose outcome is r
AfterEntry(r, i) == IF r.called THEN TagLast(r.presentation, i) ELSE r.presentation

\* lines 580-634: the loop over the slides list, from entry i on
RECURSIVE ProcessSlides(_, _, _, _, _, _)
RECURSIVE LoopFrom(_, _, _, _, _, _)
LoopFrom(entries, i, r, template, existing, size) ==
    IF ContinueAfter(r.ok)
    THEN ProcessSlides(entries, i + 1, AfterEntry(r, i), template, existing, size)
    ELSE [presentation |-> AfterEntry(r, i), aborted |-> TRUE]

ProcessSlides(entries, i, pres, template, existing, size) ==
    IF i > Len(entries) THEN [presentation |-> pres, aborted |-> FALSE]
    ELSE LoopFrom(entries, i, AddEntry(pres, template, entries[i], existing, size),
                  template, existing, size)

\* lines 636-647: the conclusion slide and the return value, after the loop
DeckResult(data, template, loop) ==
    IF loop.aborted
    THEN [presentation |-> loop.presentation, current_template |-> template,
          result |-> "False"]
    ELSE [presentation |->
              IF Get(data, "add_conclusion", TRUE)
              THEN add_conclusion_slide(loop.presentation, template).presentation
              ELSE loop.presentation,
          current_template |-> template,
          result |-> "True"]

\* lines 543-647: the presentation, current_template and the return value
create_from_structured_data(data, existing, size) ==
    DeckResult(data, TemplateOf(data),
               ProcessSlides(Get(data, "slides", <<>>), 1,
                             add_title_slide([created |-> TRUE, slides |-> <<>>],
                                             TemplateOf(data)).presentation,
                             TemplateOf(data), existing, size))

-----------------------------------------------------------------------------
(* EnhancedAIContentGenerator.generate_enhanced_presentation              *)
(* (src/ai_content_generator.py).  A response of the language model is    *)
(* given by its outcome: the call raises, or it returns a text; for the   *)
(* outline, the text holds no {...}, or json.loads rejects it, or it      *)
(* yields a dict.  An icon is given by its code point or by its key in    *)
(* the icon table of the theme system.  Four characters that the parser   *)
(* of TLA+ does not read stand as others of the basic plane, in every     *)
(* text alike: U+0111 as U+00F0, U+0103 as U+00E4, U+0129 as U+00EF and   *)
(* U+2022 as U+25CF.                                                      *)

ContainsAny(text, keywords) == \E k \in keywords : Contains(text, k)

\* lines 644-648
high_priority_keywords == {
    <<"c","ấ","u"," ","t","r","ú","c">>,
    <<"m","ô"," ","h","ì","n","h">>,
    <<"s","ơ"," ","ð","ồ">>,
    <<"b","i","ể","u"," ","ð","ồ">>,
    <<"q","u","y"," ","t","r","ì","n","h">>,
    <<"c","h","u"," ","t","r","ì","n","h">>,
    <<"h","ệ"," ","t","h","ố","n","g">>,
    <<"k","i","ế","n"," ","t","r","ú","c">>,
    <<"p","h","ư","ơ","n","g"," ","p","h","á","p">>,
    <<"s","t","r","u","c","t","u","r","e">>,
    <<"m","o","d","e","l">>,
    <<"p","r","o","c","e","s","s">>,
    <<"s","y","s","t","e","m">>,
    <<"m","e","t","h","o","d">> }

\* lines 651-655
visual_benefit_keywords == {
    <<"t","ế"," ","b","à","o">>,
    <<"p","h","â","n"," ","t","ử">>,
    <<"n","g","u","y","ê","n"," ","t","ử">>,
    <<"p","r","o","t","e","i","n">>,
    <<"d","n","a">>,
    <<"m","ạ","c","h"," ","ð","i","ệ","n">>,
    <<"s","ó","n","g">>,
    <<"n","ä","n","g"," ","l","ư","ợ","n","g">>,
    <<"p","h","ả","n"," ","ứ","n","g">>,
    <<"t","h","u","ậ","t"," ","t","o","á","n">>,
    <<"c","o","d","e">>,
    <<"l","ậ","p"," ","t","r","ì","n","h">>,
    <<"d","ữ"," ","l","i","ệ","u">> }

\* lines 638-683: needs_image
_assess_image_priority(title, items, slide_type) ==
    LET title_lower == Lower(title)
        content_text == Lower(Join(items, <<" ">>))
    IN  \/ ContainsAny(title_lower, high_priority_keywords)
        \/ ContainsAny(content_text, high_priority_keywords)
        \/ ContainsAny(title_lower, visual_benefit_keywords)
        \/ ContainsAny(content_text, visual_benefit_keywords)
        \/ (Len(items) > 4 /\ slide_type = "content")

\* theme_system.get_subject_icon, lines 300-317 of src/theme_system.py
get_subject_icon(subject) ==
    LET subject_lower == Lower(subject)
    IN  IF ContainsAny(subject_lower, {<<"s","i","n","h"," ","h","ọ","c">>, <<"b","i","o","l","o","g","y">>}) THEN "biology"
        ELSE IF ContainsAny(subject_lower, {<<"v","ậ","t"," ","l","ý">>, <<"p","h","y","s","i","c","s">>}) THEN "physics"
        ELSE IF ContainsAny(subject_lower, {<<"h","ó","a"," ","h","ọ","c">>, <<"c","h","e","m","i","s","t","r","y">>}) THEN "chemistry"
        ELSE IF ContainsAny(subject_lower, {<<"t","o","á","n">>, <<"m","a","t","h">>}) THEN "math"
        ELSE IF ContainsAny(subject_lower, {<<"p","y","t","h","o","n">>, <<"l","ậ","p"," ","t","r","ì","n","h">>}) THEN "python"
        ELSE IF ContainsAny(subject_lower, {<<"m","a","r","k","e","t","i","n","g">>, <<"k","i","n","h"," ","d","o","a","n","h">>}) THEN "business"
        ELSE "education"

\* lines 719-731: the icon of a slide
SlideIcon(title, subject_icon) ==
    LET slide_title == Lower(title)
    IN  IF ContainsAny(slide_title, {<<"g","i","ớ","i"," ","t","h","i","ệ","u">>, <<"i","n","t","r","o","d","u","c","t","i","o","n">>}) THEN "U+1F3AF"
        ELSE IF ContainsAny(slide_title, {<<"k","ế","t"," ","l","u","ậ","n">>, <<"c","o","n","c","l","u","s","i","o","n">>, <<"t","ó","m"," ","t","ắ","t">>})
        THEN "U+1F3C6"
        ELSE IF ContainsAny(slide_title, {<<"v","í"," ","d","ụ">>, <<"e","x","a","m","p","l","e">>, <<"t","h","ự","c"," ","t","ế">>})
        THEN "U+1F4A1"
        ELSE IF ContainsAny(slide_title, {<<"p","h","ư","ơ","n","g"," ","p","h","á","p">>, <<"m","e","t","h","o","d">>, <<"c","á","c","h">>})
        THEN "U+2699"
        ELSE subject_icon

\* lines 687-708: theme_name
_auto_select_theme(title, presentation_style) ==
    IF Contains(presentation_style, <<"B","u","s","i","n","e","s","s">>) THEN "business_elegant"
    ELSE IF \/ Contains(presentation_style, <<"T","e","c","h">>)
            \/ ContainsAny(Lower(title), {<<"l","ậ","p"," ","t","r","ì","n","h">>, <<"p","r","o","g","r","a","m","m","i","n","g">>, <<"a","i">>, <<"d","a","t","a">>})
    THEN "tech_gradient"
    ELSE IF Contains(presentation_style, <<"A","r","t","i","s","t","i","c">>) THEN "creative_vibrant"
    ELSE "education_pro"

\* content_text.split('\n')
RECURSIVE SplitLinesFrom(_, _, _, _)
SplitLinesFrom(s, i, line, acc) ==
    IF i > Len(s) THEN Append(acc, line)
    ELSE IF s[i] = "\n" THEN SplitLinesFrom(s, i + 1, <<>>, Append(acc, line))
    ELSE SplitLinesFrom(s, i + 1, Append(line, s[i]), acc)

SplitLines(s) == SplitLinesFrom(s, 1, <<>>, <<>>)

\* the character class of line 786: [•\-\*\d+\.]
BulletMarkers == {"●", "-", "*", "+", "."} \cup {Digits[k] : k \in 1..Len(Digits)}

\* line 786: re.sub(r'^[•\-\*\d+\.]\s*', '', line)
StripMarker(line) ==
    IF line # <<>> /\ line[1] \in BulletMarkers THEN LStrip(Tail(line)) ELSE line

\* lines 779-789
RECURSIVE ParseLines(_, _)
ParseLines(lines, acc) ==
    IF lines = <<>> THEN acc
    ELSE LET line == Strip(Head(lines))
             kept == line # <<>> /\ line[1] # "#" /\ StripMarker(line) # <<>>
         IN  ParseLines(Tail(lines), IF kept THEN Append(acc, StripMarker(line)) ELSE acc)

_parse_content_to_list(content_text) == ParseLines(SplitLines(content_text), <<>>)

\* the empty dict
EmptyDict == [k \in {} |-> k]

\* a value of the outline JSON that is a dict
IsDict(v) == "json_type" \notin DOMAIN v

\* lines 864-915 (the keys generated_at, target_audience and
\* difficulty_level, which no later step reads, are left out)
_create_fallback_presentation ==
    [ title |-> <<"B","à","i"," ","G","i","ả","n","g">>,
      template |-> "education",
      recommended_theme |-> [theme_name |-> "education_pro", auto_selected |-> TRUE],
      slides |-> <<
        [ type |-> "content",
          title |-> <<"G","i","ớ","i"," ","t","h","i","ệ","u"," ","c","h","ủ"," ","ð","ề">>,
          content |-> << <<"C","h","à","o"," ","m","ừ","n","g"," ","ð","ế","n"," ","v","ớ","i"," ","b","à","i"," ","g","i","ả","n","g"," ","h","ô","m"," ","n","a","y">>,
                       <<"C","h","ú","n","g"," ","t","a"," ","s","ẽ"," ","k","h","á","m"," ","p","h","á"," ","n","h","ữ","n","g"," ","k","i","ế","n"," ","t","h","ứ","c"," ","t","h","ú"," ","v","ị">>,
                       <<"M","ụ","c"," ","t","i","ê","u",":"," ","H","i","ể","u"," ","r","õ"," ","v","à"," ","ứ","n","g"," ","d","ụ","n","g"," ","ð","ư","ợ","c"," ","k","i","ế","n"," ","t","h","ứ","c">> >>,
          icon |-> "U+1F3AF",
          needs_image |-> TRUE ],
        [ type |-> "content",
          title |-> <<"N","ộ","i"," ","d","u","n","g"," ","c","ố","t"," ","l","õ","i">>,
          content |-> << <<"K","h","á","i"," ","n","i","ệ","m"," ","v","à"," ","ð","ị","n","h"," ","n","g","h","ï","a"," ","c","ơ"," ","b","ả","n">>,
                       <<"N","g","u","y","ê","n"," ","l","ý"," ","v","à"," ","q","u","y"," ","l","u","ậ","t"," ","q","u","a","n"," ","t","r","ọ","n","g">>,
                       <<"C","á","c"," ","v","í"," ","d","ụ"," ","m","i","n","h"," ","h","ọ","a"," ","c","ụ"," ","t","h","ể">>,
                       <<"Ứ","n","g"," ","d","ụ","n","g"," ","t","r","o","n","g"," ","t","h","ự","c"," ","t","ế">> >>,
          icon |-> "U+1F4DA",
          needs_image |-> TRUE ],
        [ type |-> "content",
          title |-> <<"T","ổ","n","g"," ","k","ế","t"," ","v","à"," ","h","à","n","h"," ","ð","ộ","n","g">>,
          content |-> << <<"T","ó","m"," ","t","ắ","t"," ","n","h","ữ","n","g"," ","ð","i","ể","m"," ","q","u","a","n"," ","t","r","ọ","n","g">>,
                       <<"B","à","i"," ","h","ọ","c"," ","k","i","n","h"," ","n","g","h","i","ệ","m"," ","r","ú","t"," ","r","a">>,
                       <<"H","ư","ớ","n","g"," ","p","h","á","t"," ","t","r","i","ể","n"," ","t","i","ế","p"," ","t","h","e","o">>,
                       <<"C","â","u"," ","h","ỏ","i"," ","t","h","ả","o"," ","l","u","ậ","n">> >>,
          icon |-> "U+1F3C6",
          needs_image |-> FALSE ] >> ]

\* lines 814-862 (of each slide, the keys read later)
_fallback_outline_enhanced(ctx) ==
    [ presentation_info |->
        [ title |-> Get(Get(ctx, "answers_collected", EmptyDict), "topic", <<"B","à","i"," ","G","i","ả","n","g">>),
          template |-> "education" ],
      slides |-> <<
        [ type |-> "content", title |-> <<"G","i","ớ","i"," ","t","h","i","ệ","u">>, needs_image |-> TRUE ],
        [ type |-> "content", title |-> <<"N","ộ","i"," ","d","u","n","g"," ","c","h","í","n","h">>, needs_image |-> TRUE ],
        [ type |-> "content", title |-> <<"K","ế","t"," ","l","u","ậ","n">>, needs_image |-> FALSE ] >> ]

\* lines 422-500: the outline, or the fallback outline when the call
\* raises, the text holds no {...} or json.loads raises
_generate_enhanced_outline(ctx, response) ==
    IF response.kind = "json" THEN response.data
    ELSE _fallback_outline_enhanced(ctx)

\* lines 539-605: <<slide_data>>, or <<>> for None when the call raises
_generate_enhanced_slide_content(slide_outline, response) ==
    IF response.kind = "raise" THEN <<>>
    ELSE LET slide_type == Get(slide_outline, "type", "content")
             content_list == _parse_content_to_list(Strip(response.text))
             mid_point == Len(content_list) \div 2
             slide_data == [ type |-> slide_type,
                             title |-> Get(slide_outline, "title", <<>>),
                             needs_image |-> Get(slide_outline, "needs_image", FALSE) ]
         IN  IF slide_type = "two_column"
             THEN << slide_data @@
                     [ left_content |-> SubSeq(content_list, 1, mid_point),
                       right_content |-> SubSeq(content_list, mid_point + 1, Len(content_list)) ] >>
             ELSE << slide_data @@ [content |-> content_list] >>

\* lines 522-528: the loop over the outline's slides, from entry i on;
\* raised when an entry is not a dict
RECURSIVE DetailedSlides(_, _, _, _)
DetailedSlides(slides_outline, i, responses, acc) ==
    IF i > Len(slides_outline) THEN [raised |-> FALSE, slides |-> acc]
    ELSE IF ~IsDict(slides_outline[i]) THEN [raised |-> TRUE, slides |-> acc]
    ELSE IF Get(slides_outline[i], "type", "None") = "title"
    THEN DetailedSlides(slides_outline, i + 1, responses, acc)
    ELSE DetailedSlides(slides_outline, i + 1, responses,
             acc \o _generate_enhanced_slide_content(slides_outline[i], responses[i]))

\* lines 508-535: the dict for the slides of the loop (the pass-through keys
\* subtitle, author, generated_at, target_audience, difficulty_level and
\* estimated_duration are left out)
DetailedResult(presentation_info, detailed) ==
    IF detailed.raised THEN _create_fallback_presentation
    ELSE [ title |-> Get(presentation_info, "title", <<"B","à","i"," ","G","i","ả","n","g">>),
           template |-> Get(presentation_info, "template", "education"),
           slides |-> detailed.slides ]

\* lines 504-535
_generate_detailed_content_enhanced(outline_data, responses) ==
    DetailedResult(Get(outline_data, "presentation_info", EmptyDict),
                   DetailedSlides(Get(outline_data, "slides", <<>>), 1, responses, <<>>))

\* lines 617-630: slides_needing_images (0-based in the source, 1-based here)
slides_needing_images(slides) ==
    { i \in DOMAIN slides :
        _assess_image_priority(Get(slides[i], "title", <<>>),
                               Get(slides[i], "content", <<>>),
                               Get(slides[i], "type", "")) }

\* generate_image_for_slide, lines 50-69 of src/dalle_generator.py: a path,
\* or "" for None
generate_image_for_slide(slide, available) ==
    IF \/ Get(slide, "type", "") \notin {"content", "two_column"}
       \/ Get(slide, "title", <<>>) = <<>>
       \/ ~available
    THEN ""
    ELSE "generated_images/slide.png"

\* lines 718-731 and 197-206: the icon and the generated image of a slide
Decorated(slide, subject_icon, wants_image, available) ==
    ( IF wants_image /\ generate_image_for_slide(slide, available) # ""
      THEN [generated_image_path |-> generate_image_for_slide(slide, available)]
      ELSE EmptyDict ) @@
    [icon |-> SlideIcon(Get(slide, "title", <<>>), subject_icon)] @@ slide

\* lines 184-222, after the detailed content (the keys image_suggestions,
\* generated_images and generation_info of the result are left out)
EnhancedResult(answers, detailed, available) ==
    [ recommended_theme |->
          [ theme_name |-> _auto_select_theme(detailed.title,
                                              Get(answers, "presentation_style", <<>>)),
            auto_selected |-> TRUE ],
      visual_elements |-> [primary_icon |-> get_subject_icon(detailed.title)],
      slides |-> [ i \in DOMAIN detailed.slides |->
                      Decorated(detailed.slides[i], get_subject_icon(detailed.title),
                                /\ Get(answers, "include_images", TRUE)
                                /\ i \in slides_needing_images(detailed.slides),
                                available) ] ]
      @@ detailed

\* lines 173-222
generate_enhanced_presentation(ctx, responses, available) ==
    EnhancedResult(Get(ctx, "answers_collected", EmptyDict),
                   _generate_detailed_content_enhanced(
                       _generate_enhanced_outline(ctx, responses.outline),
                       responses.content),
                   available)

-----------------------------------------------------------------------------
(* The interactive session of EnhancedAIContentGenerator                   *)
(* (src/ai_content_generator.py) and the chat flow of                      *)
(* EnhancedPowerPointApp (src/main.py).  A text is a sequence of           *)
(* characters; None and "" alike are the empty sequence, which Python      *)
(* takes as false.  A question is given by its key, its type and whether   *)
(* it is required; its wording and its options are left out.               *)

\* bool(text)
Truthy(text) == text # <<>>

\* lines 799-812 (the keys type, special_requirements and
\* missing_critical_info, which no later step reads, are left out)
_fallback_analysis(user_message) ==
    [ identified_info |->
        [ topic |-> IF Len(user_message) > 50
                    THEN Take(user_message, 50) \o <<".", ".", ".">>
                    ELSE user_message,
          subject |-> <<"C","h","u","n","g">>,
          audience |-> <<>>,
          duration |-> <<>> ],
      confidence_level |-> "low" ]

\* lines 224-273: the dict of the model's answer, else the fallback analysis
_analyze_initial_request(request, response) ==
    IF response.kind = "json" THEN response.data ELSE _fallback_analysis(request)

\* line 278: identified.get(...) raises when identified_info is not a dict
IdentifiedRaises(analysis) == ~IsDict(Get(analysis, "identified_info", EmptyDict))

\* the test of lines 280, 282 and 284 for one field
MissingField(identified, field) ==
    IF Truthy(Get(identified, field, <<>>)) THEN <<>> ELSE <<field>>

\* lines 275-289
_identify_missing_information(analysis) ==
    MissingField(Get(analysis, "identified_info", EmptyDict), "topic")
    \o MissingField(Get(analysis, "identified_info", EmptyDict), "audience")
    \o MissingField(Get(analysis, "identified_info", EmptyDict), "duration")
    \o ( IF Get(analysis, "confidence_level", "") = "low"
         THEN <<"content_depth", "visual_preferences">> ELSE <<>> )

Question(key, type, required) == [key |-> key, type |-> type, required |-> required]

\* lines 306-331
_get_basic_questions(info_type) ==
    << Question(info_type, IF info_type = "topic" THEN "text" ELSE "select", TRUE) >>

\* lines 333-349
_get_content_questions ==
    << Question("content_depth", "select", TRUE),
       Question("include_examples", "boolean", FALSE) >>

\* lines 351-367
_get_visual_questions ==
    << Question("presentation_style", "select", TRUE),
       Question("include_images", "boolean", FALSE) >>

\* lines 295-301: the questions of every missing piece of information
RECURSIVE QuestionsFor(_)
QuestionsFor(missing_info) ==
    IF missing_info = <<>> THEN <<>>
    ELSE ( IF Head(missing_info) \in {"topic", "audience", "duration"}
           THEN _get_basic_questions(Head(missing_info))
           ELSE IF Head(missing_info) = "content_depth" THEN _get_content_questions
           ELSE IF Head(missing_info) = "visual_preferences" THEN _get_visual_questions
           ELSE <<>> )
         \o QuestionsFor(Tail(missing_info))

\* lines 291-304: questions[:4]
_generate_interactive_questions(missing_info) == Take(QuestionsFor(missing_info), 4)

\* lines 791-797
_fallback_response ==
    [type |-> "direct_generation", fallback |-> TRUE]

\* lines 97-127: the response and self.current_context after the call
start_interactive_session(ctx, initial_request, response) ==
    IF IdentifiedRaises(_analyze_initial_request(initial_request, response))
    THEN [response |-> _fallback_response, current_context |-> ctx]
    ELSE [response |->
              [type |-> "interactive_questions",
               questions |-> _generate_interactive_questions(
                                 _identify_missing_information(
                                     _analyze_initial_request(initial_request, response)))],
          current_context |->
              [initial_request |-> initial_request,
               analysis |-> _analyze_initial_request(initial_request, response),
               missing_info |-> _identify_missing_information(
                                    _analyze_initial_request(initial_request, response)),
               answers_collected |-> EmptyDict]]

required_fields == <<"topic", "audience", "duration">>
optional_fields == <<"content_depth", "presentation_style", "include_examples", "include_images">>

\* [f for f in fields if not keep(f)]
RECURSIVE MissingRequired(_, _)
MissingRequired(answers, fields) ==
    IF fields = <<>> THEN <<>>
    ELSE MissingField(answers, Head(fields)) \o MissingRequired(answers, Tail(fields))

RECURSIVE MissingOptional(_, _)
MissingOptional(answers, fields) ==
    IF fields = <<>> THEN <<>>
    ELSE ( IF Head(fields) \in DOMAIN answers THEN <<>> ELSE <<Head(fields)>> )
         \o MissingOptional(answers, Tail(fields))

\* lines 369-390 (completion_percentage, shown in the progress text only,
\* is left out)
_assess_information_completeness(answers) ==
    [ ready_to_generate |->
          Len(required_fields) - Len(MissingRequired(answers, required_fields))
              = Len(required_fields),
      missing_required |-> MissingRequired(answers, required_fields),
      missing_optional |-> MissingOptional(answers, optional_fields) ]

RECURSIVE BasicQuestions(_)
BasicQuestions(fields) ==
    IF fields = <<>> THEN <<>>
    ELSE _get_basic_questions(Head(fields)) \o BasicQuestions(Tail(fields))

InSeq(x, s) == \E i \in DOMAIN s : s[i] = x

\* lines 392-409: questions[:3]
_generate_follow_up_questions(completeness) ==
    Take( BasicQuestions(completeness.missing_required)
          \o ( IF InSeq("content_depth", completeness.missing_optional)
               THEN Take(_get_content_questions, 1) ELSE <<>> )
          \o ( IF InSeq("presentation_style", completeness.missing_optional)
               THEN Take(_get_visual_questions, 1) ELSE <<>> ),
          3 )

\* lines 411-418
_proceed_to_generation == [type |-> "generation_ready"]

\* lines 141-157, for the context after the update of line 141
AnswersResponse(ctx) ==
    [ response |->
          IF _assess_information_completeness(ctx.answers_collected).ready_to_generate
          THEN _proceed_to_generation
          ELSE [type |-> "follow_up_questions",
                questions |-> _generate_follow_up_questions(
                                  _assess_information_completeness(ctx.answers_collected))],
      current_context |-> ctx ]

\* lines 129-161: the response and self.current_context after the call;
\* dict.update lets the new answers replace the old; a context without
\* answers_collected raises KeyError, and line 161 proceeds to generation
process_user_answers(ctx, answers) ==
    IF "answers_collected" \notin DOMAIN ctx
    THEN [response |-> _proceed_to_generation, current_context |-> ctx]
    ELSE AnswersResponse([ctx EXCEPT !.answers_collected = answers @@ @])

\* src/main.py lines 605-615: the context quick_generate builds
fallback_context(user_input, enable_dalle) ==
    [ answers_collected |->
        [ topic |-> user_input,
          audience |-> <<"H","ọ","c"," ","s","i","n","h">>,
          duration |-> <<"4","5"," ","p","h","ú","t">>,
          content_depth |-> <<"T","r","u","n","g"," ","b","ì","n","h">>,
          presentation_style |-> <<"G","i","á","o"," ","d","ụ","c"," ","-"," ","T","h","â","n"," ","t","h","i","ệ","n">>,
          include_examples |-> TRUE,
          include_images |-> enable_dalle ] ]

\* src/main.py lines 658-737 (the four slides, and the keys that no step of
\* the chat flow reads, are left out)
sample_data(user_input) ==
    [ title |-> <<"P","r","e","s","e","n","t","a","t","i","o","n"," ","v","ề"," ">> \o Take(user_input, 50),
      template |-> "education",
      recommended_theme |-> [theme_name |-> "education_pro", auto_selected |-> FALSE] ]

\* a presentation is taken as made only when it has slides
HasSlides(d) == Get(d, "slides", <<>>) # <<>>

\* bool(presentation_data) for a dict
NonEmptyDict(d) == DOMAIN d # {}

-----------------------------------------------------------------------------
(* The slide list of PowerPointEditorModule                                *)
(* (src/powerpoint_editor_module.py).  The id 'slide_<n>' of a slide is    *)
(* given by the number n; the elements of a slide are left out.            *)

\* lines 118-125: the slide made of entry i (counted from 1) of the slides
EditorSlide(slide, i) ==
    [ id |-> i - 1,
      title |-> Get(slide, "title", <<"S","l","i","d","e"," ">> \o Decimal(i)),
      type |-> Get(slide, "type", "content") ]

\* lines 112-198
_convert_ai_to_editor_format(ai_data) ==
    [ title |-> Get(ai_data, "title", <<"P","r","e","s","e","n","t","a","t","i","o","n">>),
      slides |-> [i \in 1..Len(Get(ai_data, "slides", <<>>)) |->
                     EditorSlide(Get(ai_data, "slides", <<>>)[i], i)] ]

\* the editor state: the slides and pp_current_slide_index
EditorState(slides, index) == [slides |-> slides, index |-> index]

\* lines 284-307
_add_new_slide(slides) ==
    EditorState(Append(slides, [id |-> Len(slides), title |-> <<"N","e","w"," ","S","l","i","d","e">>, type |-> "content"]),
                Len(slides))

\* lines 309-318
_duplicate_slide(slides, slide_index, index) ==
    IF slide_index < Len(slides)
    THEN EditorState(Append(slides, [slides[slide_index + 1] EXCEPT
                                        !.id = Len(slides),
                                        !.title = @ \o <<" ","(","C","o","p","y",")">>]),
                     Len(slides))
    ELSE EditorState(slides, index)

\* del slides[slide_index]
Without(slides, slide_index) ==
    SubSeq(slides, 1, slide_index) \o SubSeq(slides, slide_index + 2, Len(slides))

\* _delete_slide without the adjustment of lines 324-325
DeleteKeepIndex(slides, slide_index, index) ==
    IF Len(slides) > 1 /\ slide_index < Len(slides)
    THEN EditorState(Without(slides, slide_index), index)
    ELSE EditorState(slides, index)

\* lines 320-325
_delete_slide(slides, slide_index, index) ==
    IF Len(slides) > 1 /\ slide_index < Len(slides)
    THEN EditorState(Without(slides, slide_index),
                     IF index >= Len(slides) - 1 THEN Len(slides) - 2 ELSE index)
    ELSE EditorState(slides, index)

-----------------------------------------------------------------------------
(* The inputs *)

MaxItems == 4
MaxLayoutItems == 7

\* bullet items the content fitter is called with
ItemPool == {
    <<"P","y","t","h","o","n"," ","w","e","b">>,
    <<"D","a","t","a",":"," ","t","y","p","e","s",","," ","l","o","o","p","s">>,
    <<"a","b"," ","c","d"," ","e","f"," ","g","h"," ","i","j"," ","k","l"," ","m","n">>,
    <<>> }

\* area sizes in 1/80 inch: 0.25, 0.375, 0.75, 1.25 and 2.1875 inch wide,
\* 0.125, 0.75, 1.25 and 2.5 inch high
WidthGrid == {20, 30, 60, 100, 175}
HeightGrid == {10, 60, 100, 200}

Repeat(c, n) == [i \in 1..n |-> c]

\* items of 1, 50 and 100 characters for the layout selector
LayoutPool == { <<"x">>, Repeat("x", 50), Repeat("x", 100) }

ImagePaths == {"", "slide.png", "missing.png"}

ListsOver(pool, n) == UNION { [1..k -> pool] : k \in 0..n }

NoResult ==
    /\ fitted_content = <<>>
    /\ overflow_summary = <<>>
    /\ optimal_font_size = 0
    /\ fallback = FALSE
    /\ layout_type = ""

\* presentation_data before any call of create_from_structured_data
NoData == [slides |-> <<>>]

\* the generator after __init__ (lines 32-35), before any call
Fresh ==
    /\ presentation = NoPresentation
    /\ current_template = "education"
    /\ layout_arg = ""
    /\ image_size = <<0, 0>>
    /\ result = "None"
    /\ presentation_data = NoData

\* no call of generate_enhanced_presentation is under way
NoRequest ==
    /\ context = EmptyDict
    /\ llm_responses = EmptyDict
    /\ dalle_ok = FALSE

\* the session state after init_session_state (src/main.py lines 166-213)
\* and PowerPointEditorModule.__init__ (lines 30-36)
NoSession ==
    /\ generation_phase = "initial"
    /\ current_questions = <<>>
    /\ ai_generator = FALSE
    /\ pp_editor_data = EmptyDict
    /\ pp_current_slide_index = 0
    /\ pp_edit_mode = FALSE

-----------------------------------------------------------------------------
(* The content fitter, called on one area *)

InitFit ==
    /\ content \in ListsOver(ItemPool, MaxItems)
    /\ area_width \in WidthGrid
    /\ area_height \in HeightGrid
    /\ image_path = ""
    /\ files = {}
    /\ pc = "call"
    /\ NoResult
    /\ Fresh
    /\ NoRequest
    /\ NoSession

CalculatePerfectContentFit ==
    /\ pc = "call"
    /\ LET r == _calculate_perfect_content_fit(content, area_width, area_height)
       IN  /\ pc' = IF r.raised THEN "raised" ELSE "returned"
           /\ fitted_content' = r.fitted
           /\ overflow_summary' = r.summary
           /\ optimal_font_size' = r.font
           /\ fallback' = r.fallback
    /\ UNCHANGED <<content, area_width, area_height, image_path, files, layout_type>>
    /\ UNCHANGED deckVars
    /\ UNCHANGED genVars
    /\ UNCHANGED uiVars

NextFit == CalculatePerfectContentFit

SpecFit == InitFit /\ [][NextFit]_vars

-----------------------------------------------------------------------------
(* The layout selector *)

InitLayout ==
    /\ content \in ListsOver(LayoutPool, MaxLayoutItems)
    /\ area_width = 0
    /\ area_height = 0
    /\ image_path \in ImagePaths
    /\ files = {"slide.png"}
    /\ pc = "call"
    /\ NoResult
    /\ Fresh
    /\ NoRequest
    /\ NoSession

AutoSelectLayout ==
    /\ pc = "call"
    /\ layout_type' = _auto_select_layout(content, image_path, files)
    /\ pc' = "returned"
    /\ UNCHANGED <<content, area_width, area_height, image_path, files,
                   fitted_content, overflow_summary, optimal_font_size, fallback>>
    /\ UNCHANGED deckVars
    /\ UNCHANGED genVars
    /\ UNCHANGED uiVars

NextLayout == AutoSelectLayout

SpecLayout == InitLayout /\ [][NextLayout]_vars

-----------------------------------------------------------------------------
(* Smart image-content slides added to a presentation *)

MaxSlides == 1

\* template names given to create_new_presentation; "custom" is not a key
\* of the templates table
TemplateArgs == {"education", "modern", "custom"}

\* layout_type arguments: the default, the configured names, the removed
\* name and an unknown one
LayoutArgs == {"auto", "image_top_content_bottom", "content_left_image_right",
               "image_left_content_right", "content_top_image_bottom", "fancy"}

\* pixel sizes of the image file; <<0, 0>> is a file that is not an image
ImageSizes == {<<0, 0>>, <<8, 3>>, <<9, 11>>, <<16, 9>>, <<3, 4>>, <<1, 1>>,
               <<10, 1>>, <<1, 10>>}

\* contents for which the selector names each of its layouts
SlideContents == { <<>>,
                   << <<"P","y","t","h","o","n"," ","w","e","b">> >>,
                   [i \in 1..4 |-> Repeat("x", 50)],
                   [i \in 1..7 |-> Repeat("x", 100)],
                   [i \in 1..10 |-> Repeat("x", 100)] }

InitSlide ==
    /\ content = <<>>
    /\ area_width = 0
    /\ area_height = 0
    /\ image_path = ""
    /\ files = {"slide.png"}
    /\ pc = "call"
    /\ NoResult
    /\ presentation = NoPresentation
    /\ current_template = "education"
    /\ layout_arg = ""
    /\ image_size \in ImageSizes
    /\ result = "None"
    /\ presentation_data = NoData
    /\ NoRequest
    /\ NoSession

\* lines 120-129; the variables holding the arguments and results of the
\* last slide operation start over with the new presentation
CreateNewPresentation ==
    /\ \E template \in TemplateArgs :
          /\ presentation' = [created |-> TRUE, slides |-> <<>>]
          /\ current_template' = template
    /\ result' = "True"
    /\ content' = <<>>
    /\ image_path' = ""
    /\ layout_arg' = ""
    /\ pc' = "call"
    /\ fitted_content' = <<>>
    /\ overflow_summary' = <<>>
    /\ optimal_font_size' = 0
    /\ fallback' = FALSE
    /\ layout_type' = ""
    /\ UNCHANGED <<area_width, area_height, files, image_size, presentation_data>>
    /\ UNCHANGED genVars
    /\ UNCHANGED uiVars

AddSmartImageContentSlide ==
    /\ Len(presentation.slides) < MaxSlides
    /\ \E items \in SlideContents, path \in ImagePaths, layout \in LayoutArgs :
          \E r \in { add_smart_image_content_slide(presentation, current_template, path,
                                                   items, layout, files, image_size) } :
              /\ content' = items
              /\ image_path' = path
              /\ layout_arg' = layout
              /\ presentation' = r.presentation
              /\ result' = r.result
              /\ layout_type' = r.layout_type
              /\ fitted_content' = r.fit.fitted
              /\ overflow_summary' = r.fit.summary
              /\ optimal_font_size' = r.fit.font
              /\ fallback' = r.fit.fallback
    /\ pc' = "returned"
    /\ UNCHANGED <<area_width, area_height, files, current_template, image_size,
                   presentation_data>>
    /\ UNCHANGED genVars
    /\ UNCHANGED uiVars

NextSlide == CreateNewPresentation \/ AddSmartImageContentSlide

SpecSlide == InitSlide /\ [][NextSlide]_vars

-----------------------------------------------------------------------------
(* The content of one area put on a blank slide *)

MaxBoxItems == 4

\* areas in 1/80 inch: 0.75 and 2.1875 inch wide, 0.75 and 1.25 inch high
BoxWidths == {60, 175}
BoxHeights == {60, 100}

\* a presentation with the blank slide the content box goes on
OneBlankSlide ==
    [created |-> TRUE, slides |-> << Slide("smart_image_content", <<>>, <<>>, TRUE) >>]

InitContent ==
    /\ content \in ListsOver(ItemPool, MaxBoxItems)
    /\ area_width \in BoxWidths
    /\ area_height \in BoxHeights
    /\ image_path = ""
    /\ files = {}
    /\ pc = "call"
    /\ NoResult
    /\ presentation = OneBlankSlide
    /\ current_template \in {"education", "custom"}
    /\ layout_arg = ""
    /\ image_size = <<0, 0>>
    /\ result = "None"
    /\ presentation_data = NoData
    /\ NoRequest
    /\ NoSession

\* _add_content_to_area (lines 968-1024) on the area at the slide's origin
AddContentToArea ==
    /\ pc = "call"
    /\ \E fit \in { _calculate_perfect_content_fit(content, area_width, area_height) } :
          /\ pc' = IF fit.raised \/ (fit.fitted # <<>> /\ current_template \notin TemplateKeys)
                   THEN "raised" ELSE "returned"
          /\ presentation' =
                IF fit.raised THEN presentation
                ELSE [presentation EXCEPT !.slides[1].shapes =
                         Append(@, ContentBox(Rect(0, 0, area_width, area_height), fit,
                                              current_template))]
          /\ fitted_content' = fit.fitted
          /\ overflow_summary' = fit.summary
          /\ optimal_font_size' = fit.font
          /\ fallback' = fit.fallback
    /\ UNCHANGED <<content, area_width, area_height, image_path, files, layout_type,
                   current_template, layout_arg, image_size, result, presentation_data>>
    /\ UNCHANGED genVars
    /\ UNCHANGED uiVars

NextContent == AddContentToArea

SpecContent == InitContent /\ [][NextContent]_vars

-----------------------------------------------------------------------------
(* Decks built from structured data *)

MaxEntries == 3

Bullets == << <<"P","y","t","h","o","n"," ","w","e","b">> >>

\* entries of the slides list: the handled types with and without a
\* generated image, an entry without a type, a chart that add_chart rejects,
\* a table with a row longer than the first, and the type "conclusion" that
\* the outline of the content generator may name
EntryPool == {
    [type |-> "content", content |-> Bullets],
    [type |-> "content", content |-> Bullets, generated_image_path |-> "slide.png"],
    [content |-> Bullets],
    [type |-> "two_column", left_content |-> Bullets, right_content |-> Bullets],
    [type |-> "image", image_path |-> "missing.png"],
    [type |-> "chart", chart_data |-> "invalid"],
    [type |-> "table", table_data |-> <<2, 2>>],
    [type |-> "table", table_data |-> <<1, 2>>],
    [type |-> "conclusion", content |-> Bullets] }

\* the other keys of presentation_data; "training" is a template name the
\* outline prompt offers and the templates table lacks
DeckOptions == {
    [title |-> "Deck"],
    [title |-> "Deck", template |-> "modern"],
    [title |-> "Deck", template |-> "training"],
    [title |-> "Deck", template |-> "training",
     recommended_theme |-> [theme_name |-> "tech_gradient"]],
    [title |-> "Deck", add_conclusion |-> FALSE],
    [title |-> "Deck", template |-> "training", add_conclusion |-> FALSE] }

DeckData ==
    { [slides |-> entries] @@ options :
          entries \in ListsOver(EntryPool, MaxEntries), options \in DeckOptions }

InitDeck ==
    /\ content = <<>>
    /\ area_width = 0
    /\ area_height = 0
    /\ image_path = ""
    /\ files = {"slide.png"}
    /\ pc = "call"
    /\ NoResult
    /\ presentation = NoPresentation
    /\ current_template = "education"
    /\ layout_arg = ""
    /\ image_size = <<16, 9>>
    /\ result = "None"
    /\ presentation_data \in DeckData
    /\ NoRequest
    /\ NoSession

CreateFromStructuredData ==
    /\ pc = "call"
    /\ \E r \in { create_from_structured_data(presentation_data, files, image_size) } :
           /\ presentation' = r.presentation
           /\ current_template' = r.current_template
           /\ result' = r.result
    /\ pc' = "returned"
    /\ UNCHANGED <<content, area_width, area_height, image_path, files,
                   fitted_content, overflow_summary, optimal_font_size, fallback,
                   layout_type, layout_arg, image_size, presentation_data>>
    /\ UNCHANGED genVars
    /\ UNCHANGED uiVars

NextDeck == CreateFromStructuredData

SpecDeck == InitDeck /\ [][NextDeck]_vars

-----------------------------------------------------------------------------
(* Presentations generated from a context by the language model *)

\* the context argument: the answers collected by the question flow
Contexts == {
    EmptyDict,
    [answers_collected |-> [topic |-> <<"L","ậ","p"," ","t","r","ì","n","h"," ","P","y","t","h","o","n">>]],
    [answers_collected |-> [topic |-> <<"M","a","r","k","e","t","i","n","g">>,
                            presentation_style |-> <<"B","u","s","i","n","e","s","s">>,
                            include_images |-> FALSE]],
    [answers_collected |-> [presentation_style |-> <<"A","r","t","i","s","t","i","c">>]] }

\* an outline as the prompt of lines 447-487 asks for it
ValidOutline ==
    [ presentation_info |-> [title |-> <<"S","i","n","h"," ","h","ọ","c"," ","t","ế"," ","b","à","o">>, template |-> "training"],
      slides |-> <<
        [ type |-> "title", title |-> <<"S","i","n","h"," ","h","ọ","c"," ","t","ế"," ","b","à","o">> ],
        [ type |-> "content", title |-> <<"C","ấ","u"," ","t","r","ú","c"," ","t","ế"," ","b","à","o">>, needs_image |-> TRUE ],
        [ type |-> "two_column", title |-> <<"V","í"," ","d","ụ">> ] >> ]

\* an outline whose slides are strings, not dicts
MalformedOutline ==
    [ slides |-> << [json_type |-> "string"] >> ]

\* outcomes of the outline call of line 490
OutlineResponses == {
    [kind |-> "raise"],
    [kind |-> "no_json"],
    [kind |-> "bad_json"],
    [kind |-> "json", data |-> ValidOutline],
    [kind |-> "json", data |-> MalformedOutline],
    [kind |-> "json", data |-> EmptyDict] }

\* outcomes of a slide's content call of line 572
ContentResponses == {
    [kind |-> "raise"],
    [kind |-> "text", text |-> <<"●"," ","N","h","â","n"," ","t","ế"," ","b","à","o","\n","#"," ","g","h","i"," ","c","h","ú","\n","\n","-"," ","D","N","A","\n"," ","1","."," ","M","à","n","g">>],
    [kind |-> "text", text |-> <<"*"," ","a","\n","*"," ","b","\n","*"," ","c","\n","*"," ","d","\n","*"," ","e","\n">>] }

MaxOutlineSlides == 3

InitGenerate ==
    /\ content = <<>>
    /\ area_width = 0
    /\ area_height = 0
    /\ image_path = ""
    /\ files = {}
    /\ pc = "call"
    /\ NoResult
    /\ Fresh
    /\ context \in Contexts
    /\ llm_responses \in { [outline |-> o, content |-> c] :
                             o \in OutlineResponses,
                             c \in [1..MaxOutlineSlides -> ContentResponses] }
    /\ dalle_ok \in BOOLEAN
    /\ NoSession

GenerateEnhancedPresentation ==
    /\ pc = "call"
    /\ presentation_data' = generate_enhanced_presentation(context, llm_responses, dalle_ok)
    /\ pc' = "returned"
    /\ UNCHANGED <<content, area_width, area_height, image_path, files,
                   fitted_content, overflow_summary, optimal_font_size, fallback,
                   layout_type, presentation, current_template, layout_arg,
                   image_size, result>>
    /\ UNCHANGED genVars
    /\ UNCHANGED uiVars

NextGenerate == GenerateEnhancedPresentation

SpecGenerate == InitGenerate /\ [][NextGenerate]_vars

-----------------------------------------------------------------------------
(* The chat flow: one step per handler that a script run executes *)

\* the text of the request input
Requests == {
    <<"S","i","n","h"," ","h","ọ","c"," ","l","ớ","p"," ","1","0">>,
    <<"T","ạ","o"," ","b","à","i"," ","g","i","ả","n","g"," ","S","i","n","h"," ","h","ọ","c"," ","l","ớ","p"," ","1","0"," ","v","ề"," ","c","ấ","u"," ","t","r","ú","c"," ","t","ế"," ","b","à","o",","," ","4","5"," ","p","h","ú","t">> }

\* outcomes of the analysis call of line 251: it raises, its text holds no
\* {...}, or it yields a dict (identified_info may be null)
AnalysisResponses == {
    [kind |-> "raise"],
    [kind |-> "no_json"],
    [kind |-> "json", data |-> EmptyDict],
    [kind |-> "json", data |-> [identified_info |-> [json_type |-> "null"],
                                confidence_level |-> "high"]],
    [kind |-> "json", data |-> [identified_info |-> [topic |-> <<"C","ấ","u"," ","t","r","ú","c"," ","t","ế"," ","b","à","o">>,
                                                     audience |-> <<>>,
                                                     duration |-> <<>>],
                                confidence_level |-> "medium"]],
    [kind |-> "json", data |-> [identified_info |-> [topic |-> <<"C","ấ","u"," ","t","r","ú","c"," ","t","ế"," ","b","à","o">>,
                                                     audience |-> <<"H","ọ","c"," ","s","i","n","h"," ","T","H","P","T">>,
                                                     duration |-> <<"4","5"," ","p","h","ú","t">>],
                                confidence_level |-> "high"]] }

\* what the language model answers during one generation
ChatResponses ==
    { [outline |-> o, content |-> [i \in 1..MaxOutlineSlides |-> [kind |-> "raise"]]] :
        o \in { [kind |-> "raise"], [kind |-> "no_json"],
                [kind |-> "json", data |-> ValidOutline] } }

\* the value entered for a text or select question
AnswerValue(key) ==
    CASE key = "topic" -> <<"C","ấ","u"," ","t","r","ú","c"," ","t","ế"," ","b","à","o">>
      [] key = "audience" -> <<"H","ọ","c"," ","s","i","n","h"," ","T","H","P","T">>
      [] key = "duration" -> <<"4","5"," ","p","h","ú","t">>
      [] key = "content_depth" -> <<"C","ơ"," ","b","ả","n"," ","-"," ","G","i","ớ","i"," ","t","h","i","ệ","u"," ","t","ổ","n","g"," ","q","u","a","n">>
      [] OTHER -> <<"H","i","ệ","n"," ","ð","ạ","i"," ","-"," ","T","e","c","h">>

QuestionKeys(questions, types) ==
    { questions[i].key : i \in { j \in DOMAIN questions : questions[j].type \in types } }

\* src/main.py lines 443-479: the answers the form collects; a text or
\* select question left empty gives no entry, a checkbox always gives one
FormAnswers(questions) ==
    { [key \in entered \cup QuestionKeys(questions, {"boolean"}) |->
           IF key \in entered THEN AnswerValue(key) ELSE checked] :
        entered \in SUBSET QuestionKeys(questions, {"text", "select"}),
        checked \in BOOLEAN }

InitChat ==
    /\ content = <<>>
    /\ area_width = 0
    /\ area_height = 0
    /\ image_path = ""
    /\ files = {}
    /\ pc = "call"
    /\ NoResult
    /\ presentation = NoPresentation
    /\ current_template = "education"
    /\ layout_arg = ""
    /\ image_size = <<0, 0>>
    /\ result = "None"
    /\ presentation_data = EmptyDict
    /\ NoRequest
    /\ NoSession

\* what no handler of the chat flow changes
ChatFrame ==
    UNCHANGED <<content, area_width, area_height, image_path, files,
                fitted_content, overflow_summary, optimal_font_size, fallback,
                layout_type, presentation, current_template, layout_arg,
                image_size, result, llm_responses, dalle_ok, editorVars>>

\* src/main.py lines 219-241: the script run reads the API key field
SetupSidebar ==
    /\ \E api_key \in {"", "sk"} :
          IF api_key # ""
          THEN IF ~ai_generator
               THEN ai_generator' = TRUE /\ context' = EmptyDict
               ELSE UNCHANGED <<ai_generator, context>>
          ELSE ai_generator' = FALSE /\ UNCHANGED context
    /\ pc' = "sidebar"
    /\ UNCHANGED <<generation_phase, current_questions, presentation_data>>
    /\ ChatFrame

\* src/main.py lines 885-894
ResetInteractiveSession ==
    /\ current_questions' = <<>>
    /\ generation_phase' = "initial"
    /\ context' = IF ai_generator THEN EmptyDict ELSE context
    /\ pc' = "sidebar"
    /\ UNCHANGED <<ai_generator, presentation_data>>
    /\ ChatFrame

\* src/main.py lines 600-627: presentation_data and generation_phase after
\* quick_generate
quick_generate(user_input) ==
    \E enable_dalle \in BOOLEAN, responses \in ChatResponses, available \in BOOLEAN :
       \E data \in { generate_enhanced_presentation(
                         fallback_context(user_input, enable_dalle), responses, available) } :
          IF NonEmptyDict(data)
          THEN presentation_data' = data /\ generation_phase' = "complete"
          ELSE UNCHANGED <<presentation_data, generation_phase>>

\* src/main.py lines 491-535, behind the button of lines 407-409
StartInteractiveGeneration ==
    /\ generation_phase \in {"initial", "complete"}
    /\ ai_generator
    /\ \E user_input \in Requests, response \in AnalysisResponses :
          \E r \in { start_interactive_session(context, user_input, response) } :
             /\ context' = r.current_context
             /\ IF r.response.type = "interactive_questions"
                THEN /\ current_questions' = Get(r.response, "questions", <<>>)
                     /\ generation_phase' = "questions"
                     /\ UNCHANGED presentation_data
                ELSE /\ quick_generate(user_input)
                     /\ UNCHANGED current_questions
    /\ pc' = "chat"
    /\ UNCHANGED ai_generator
    /\ ChatFrame

\* src/main.py lines 600-627, behind the button of lines 416-418
QuickGenerate ==
    /\ generation_phase \in {"initial", "complete"}
    /\ ai_generator
    /\ \E user_input \in Requests : quick_generate(user_input)
    /\ pc' = "chat"
    /\ UNCHANGED <<current_questions, ai_generator, context>>
    /\ ChatFrame

\* src/main.py lines 654-756, behind the button of lines 429-433
CreateSamplePresentation ==
    /\ generation_phase \in {"initial", "complete"}
    /\ ~ai_generator
    /\ \E user_input \in Requests : presentation_data' = sample_data(user_input)
    /\ generation_phase' = "complete"
    /\ pc' = "chat"
    /\ UNCHANGED <<current_questions, ai_generator, context>>
    /\ ChatFrame

\* src/main.py lines 537-572, behind the form of lines 375-376 and 484-485;
\* without a generator line 544 raises and the handler changes nothing
ProcessInteractiveAnswers ==
    /\ current_questions # <<>>
    /\ \E answers \in FormAnswers(current_questions) :
          IF ~ai_generator
          THEN UNCHANGED <<context, current_questions, generation_phase>>
          ELSE \E r \in { process_user_answers(context, answers) } :
                  /\ context' = r.current_context
                  /\ IF r.response.type = "follow_up_questions"
                     THEN /\ current_questions' = Get(r.response, "questions", <<>>)
                          /\ UNCHANGED generation_phase
                     ELSE /\ current_questions' = <<>>
                          /\ generation_phase' = "generation"
    /\ pc' = "chat"
    /\ UNCHANGED <<ai_generator, presentation_data>>
    /\ ChatFrame

\* src/main.py lines 629-633, behind the button of lines 488-489
SkipQuestionsAndGenerate ==
    /\ current_questions # <<>>
    /\ current_questions' = <<>>
    /\ generation_phase' = "generation"
    /\ pc' = "chat"
    /\ UNCHANGED <<ai_generator, context, presentation_data>>
    /\ ChatFrame

\* src/main.py lines 574-598, called by lines 379-391; without a generator
\* line 579 raises
AutoGeneratePresentation ==
    /\ generation_phase = "generation"
    /\ IF ~ai_generator
       THEN generation_phase' = "complete" /\ UNCHANGED presentation_data
       ELSE \E responses \in ChatResponses, available \in BOOLEAN :
               \E data \in { generate_enhanced_presentation(context, responses, available) } :
                  IF NonEmptyDict(data)
                  THEN presentation_data' = data /\ generation_phase' = "complete"
                  ELSE UNCHANGED <<presentation_data, generation_phase>>
    /\ pc' = "auto_generate"
    /\ UNCHANGED <<current_questions, ai_generator, context>>
    /\ ChatFrame

NextChat ==
    \/ SetupSidebar
    \/ ResetInteractiveSession
    \/ StartInteractiveGeneration
    \/ QuickGenerate
    \/ CreateSamplePresentation
    \/ ProcessInteractiveAnswers
    \/ SkipQuestionsAndGenerate
    \/ AutoGeneratePresentation

SpecChat == InitChat /\ [][NextChat]_vars

-----------------------------------------------------------------------------
(* The editor: one step per handler of the slide navigator *)

MaxEditorSlides == 4

\* a slide is duplicated only while its title is shorter than this
MaxTitleLength == 10

\* the presentation data given to the editor
EditorDecks == {
    [title |-> <<"S","i","n","h"," ","h","ọ","c">>, slides |-> <<>>],
    [title |-> <<"S","i","n","h"," ","h","ọ","c">>, slides |-> << [type |-> "title", title |-> <<"S","i","n","h"," ","h","ọ","c">>] >>],
    [slides |-> << [type |-> "title", title |-> <<"S","i","n","h"," ","h","ọ","c">>], [type |-> "content"],
                   [title |-> <<"K","ế","t"," ","l","u","ậ","n">>] >>] }

InitEditor ==
    /\ content = <<>>
    /\ area_width = 0
    /\ area_height = 0
    /\ image_path = ""
    /\ files = {}
    /\ pc = "call"
    /\ NoResult
    /\ presentation = NoPresentation
    /\ current_template = "education"
    /\ layout_arg = ""
    /\ image_size = <<0, 0>>
    /\ result = "None"
    /\ presentation_data \in EditorDecks
    /\ NoRequest
    /\ NoSession

\* what no handler of the editor changes
EditorFrame ==
    UNCHANGED <<content, area_width, area_height, image_path, files,
                fitted_content, overflow_summary, optimal_font_size, fallback,
                layout_type, presentation, current_template, layout_arg,
                image_size, result, presentation_data, genVars, chatVars>>

\* the editor is shown: line 68
Editing == pp_edit_mode /\ pp_editor_data # EmptyDict

\* the slides and the index after a handler
SetEditor(state) ==
    /\ pp_editor_data' = [pp_editor_data EXCEPT !.slides = state.slides]
    /\ pp_current_slide_index' = state.index
    /\ UNCHANGED pp_edit_mode

\* lines 38-59
StartEditing ==
    /\ ~pp_edit_mode
    /\ pp_editor_data' = _convert_ai_to_editor_format(presentation_data)
    /\ pp_current_slide_index' = 0
    /\ pp_edit_mode' = TRUE
    /\ pc' = "returned"
    /\ EditorFrame

\* lines 83-86, the button of the editor; the index is kept
LeaveEditor ==
    /\ Editing
    /\ pp_edit_mode' = FALSE
    /\ pp_editor_data' = EmptyDict
    /\ UNCHANGED pp_current_slide_index
    /\ pc' = "returned"
    /\ EditorFrame

\* lines 916-920
ExitEditMode ==
    /\ pp_edit_mode
    /\ pp_edit_mode' = FALSE
    /\ pp_editor_data' = EmptyDict
    /\ pp_current_slide_index' = 0
    /\ pc' = "returned"
    /\ EditorFrame

\* lines 93-95
ResetEditor ==
    /\ Editing
    /\ pp_current_slide_index' = 0
    /\ UNCHANGED <<pp_editor_data, pp_edit_mode>>
    /\ pc' = "returned"
    /\ EditorFrame

\* lines 221-234: the button of slide i
Navigate ==
    /\ Editing
    /\ \E i \in 0..(Len(pp_editor_data.slides) - 1) : pp_current_slide_index' = i
    /\ UNCHANGED <<pp_editor_data, pp_edit_mode>>
    /\ pc' = "returned"
    /\ EditorFrame

\* lines 241-244
AddNewSlide ==
    /\ Editing
    /\ Len(pp_editor_data.slides) < MaxEditorSlides
    /\ SetEditor(_add_new_slide(pp_editor_data.slides))
    /\ pc' = "returned"
    /\ EditorFrame

\* lines 246-249
DuplicateSlide ==
    /\ Editing
    /\ Len(pp_editor_data.slides) < MaxEditorSlides
    /\ pp_current_slide_index < Len(pp_editor_data.slides) =>
           Len(pp_editor_data.slides[pp_current_slide_index + 1].title) < MaxTitleLength
    /\ SetEditor(_duplicate_slide(pp_editor_data.slides, pp_current_slide_index,
                                  pp_current_slide_index))
    /\ pc' = "returned"
    /\ EditorFrame

\* lines 252-256: the button is shown for more than one slide
DeleteSlide ==
    /\ Editing
    /\ Len(pp_editor_data.slides) > 1
    /\ SetEditor(_delete_slide(pp_editor_data.slides, pp_current_slide_index,
                               pp_current_slide_index))
    /\ pc' = "returned"
    /\ EditorFrame

NextEditor ==
    \/ StartEditing
    \/ LeaveEditor
    \/ ExitEditMode
    \/ ResetEditor
    \/ Navigate
    \/ AddNewSlide
    \/ DuplicateSlide
    \/ DeleteSlide

SpecEditor == InitEditor /\ [][NextEditor]_vars

-----------------------------------------------------------------------------
(* Properties of the content fitter (SpecFit) *)

usable_width == area_width - WidthMargin
usable_height == area_height - HeightMargin

Returned == pc = "returned"

\* the estimated lines of a list of items at a number of characters per line
RECURSIVE LinesOfItems(_, _)
LinesOfItems(items, cpl) ==
    IF items = <<>> THEN 0
    ELSE lines_needed(Head(items), cpl) + LinesOfItems(Tail(items), cpl)

\* C1 (no overflow): the estimated lines of the placed items at the chosen
\* font size are at most the line capacity of the area at that font size,
\* also when the result comes from the compression fallback.
C1_NoOverflow ==
    Returned =>
        LinesOfItems(fitted_content, chars_per_line(usable_width, optimal_font_size))
            <= total_lines_available(usable_height, optimal_font_size)

\* a result of the compression fallback with items placed and items dropped
C1_Witness ==
    /\ Returned /\ fallback
    /\ fitted_content # <<>>
    /\ overflow_summary # <<>>

\* C2 as stated (prefix with unchanged text): the placed items are exactly
\* the first k input items, text unchanged, in the original order.
C2_PrefixUnchanged ==
    Returned =>
        /\ Len(fitted_content) <= Len(content)
        /\ fitted_content = SubSeq(content, 1, Len(fitted_content))

\* C2 as amended: the placed items are, position by position and in the
\* original order, the first k input items; the text of each is unchanged,
\* except in the compression fallback, where it is the compressed form of
\* the input item (at most two lines at font size 8).
C2_PrefixUpToCompression ==
    Returned =>
        /\ Len(fitted_content) <= Len(content)
        /\ \A i \in 1..Len(fitted_content) :
              fitted_content[i] =
                  IF fallback
                  THEN _smart_compress_content_item(content[i], 2 * chars_per_line(usable_width, 8))
                  ELSE content[i]

\* a result that holds an item whose text was shortened by the fallback
C2_Witness ==
    /\ Returned /\ fallback
    /\ \E i \in 1..Len(fitted_content) : fitted_content[i] # content[i]

\* C3: the overflow summary is empty exactly when every input item is
\* placed; whenever an item is dropped the summary is a non-empty string.
C3_SummaryIffDropped ==
    Returned => ((overflow_summary = <<>>) <=> (Len(fitted_content) = Len(content)))

\* a result with dropped items none of which has a word to name
C3_Witness ==
    /\ Returned
    /\ Len(fitted_content) < Len(content)
    /\ \A i \in (Len(fitted_content) + 1)..Len(content) : Split(content[i]) = <<>>
    /\ overflow_summary # <<>>

\* the greedy walk at a candidate size places every item / enough items to stop
AllFitAt(f) ==
    LET t == _try_fit_content_with_font(content, usable_width, usable_height, f)
    IN  ~t.raised /\ Len(t.fitted) = Len(content)
EnoughFitAt(f) ==
    LET t == _try_fit_content_with_font(content, usable_width, usable_height, f)
    IN  ~t.raised /\ Len(t.fitted) >= Min(3, Len(content))
Candidates == {font_sizes[k] : k \in 1..Len(font_sizes)}

\* C4 as stated: if all items fit at some candidate size, all items are
\* placed with an empty summary at the largest such size.
C4_LargestSizeFittingAll ==
    Returned =>
        \A f \in Candidates :
            (AllFitAt(f) /\ \A g \in Candidates : AllFitAt(g) => g <= f) =>
                /\ fitted_content = content
                /\ overflow_summary = <<>>
                /\ optimal_font_size = f

\* C4 as amended: the fitter returns at the largest candidate size at which
\* at least min(3, len(items)) items fit; it places all items with an empty
\* summary exactly when all of them fit at that size, and otherwise drops
\* the items after the fitting prefix, even if a smaller candidate size
\* fits them all.  Without such a size the result is the one of the fallback.
C4_LargestSizeFittingEnough ==
    Returned =>
        /\ fallback <=> (\A f \in Candidates : ~EnoughFitAt(f))
        /\ ~fallback =>
              /\ EnoughFitAt(optimal_font_size)
              /\ \A g \in Candidates : EnoughFitAt(g) => g <= optimal_font_size
              /\ AllFitAt(optimal_font_size) =>
                    fitted_content = content /\ overflow_summary = <<>>
              /\ ~AllFitAt(optimal_font_size) =>
                    Len(fitted_content) < Len(content) /\ overflow_summary # <<>>

\* items are dropped at size 14 although a smaller candidate size fits them all
C4_Witness ==
    /\ Returned /\ ~fallback
    /\ Len(fitted_content) < Len(content)
    /\ \E f \in Candidates : AllFitAt(f)

\* the result for the same items in another area
CountIn(w, h) == Len(_calculate_perfect_content_fit(content, w, h).fitted)
FontIn(w, h) == _calculate_perfect_content_fit(content, w, h).font
ReturnsIn(w, h) == ~_calculate_perfect_content_fit(content, w, h).raised

\* C5 (monotonic item count): for the same items, an area that is narrower
\* or lower (the other side unchanged) never gets more placed items.
C5_CountMonotone ==
    Returned =>
        /\ \A w \in WidthGrid :
              (w <= area_width /\ ReturnsIn(w, area_height)) =>
                  CountIn(w, area_height) <= Len(fitted_content)
        /\ \A h \in HeightGrid :
              (h <= area_height /\ ReturnsIn(area_width, h)) =>
                  CountIn(area_width, h) <= Len(fitted_content)

\* C6 (monotonic font size): for the same items, an area that is narrower
\* or lower (the other side unchanged) never gets a larger font size.
C6_FontMonotone ==
    Returned =>
        /\ \A w \in WidthGrid :
              (w <= area_width /\ ReturnsIn(w, area_height)) =>
                  FontIn(w, area_height) <= optimal_font_size
        /\ \A h \in HeightGrid :
              (h <= area_height /\ ReturnsIn(area_width, h)) =>
                  FontIn(area_width, h) <= optimal_font_size

\* C8: the fitter returns a result for every item list and every area with
\* positive width and height; it never raises.
C8_NeverRaises == pc # "raised"

\* the theme detection of lines 1771-1777 and the theme names of lines 1772-1778
ThemeDetected(text) ==
    \/ Contains(text, <<"p","y","t","h","o","n">>) /\ Contains(text, <<"w","e","b">>)
    \/ Contains(text, <<"d","a","t","a">>)
    \/ Contains(text, <<"m","a","c","h","i","n","e"," ","l","e","a","r","n","i","n","g">>)
    \/ Contains(text, <<"f","r","a","m","e","w","o","r","k">>)
    \/ Contains(text, <<"l","i","b","r","a","r","y">>)
    \/ Contains(text, <<"a","p","p","l","i","c","a","t","i","o","n">>)
ThemeNames == {
    <<"W","e","b"," ","&"," ","P","y","t","h","o","n">>,
    <<"D","a","t","a"," ","S","c","i","e","n","c","e">>,
    <<"F","r","a","m","e","w","o","r","k","s">>,
    <<"A","p","p","l","i","c","a","t","i","o","n","s">> }

\* C9: whenever items are dropped, the summary names a detected theme and
\* the number of dropped items or, when the dropped items hold no theme
\* keyword, the leading words of the first dropped item and that number.
C9_SummaryNamesThemeOrWords ==
    (Returned /\ Len(fitted_content) < Len(content)) =>
        LET dropped == SubSeq(content, Len(fitted_content) + 1, Len(content))
            text == Lower(Join(dropped, <<" ">>))
            words == Take(Split(dropped[1]), 2)
        IN  /\ Contains(overflow_summary, Decimal(Len(dropped)))
            /\ IF ThemeDetected(text)
               THEN \E n \in ThemeNames : Contains(overflow_summary, n)
               ELSE words # <<>> /\ Contains(overflow_summary, Join(words, <<" ">>))

\* the greedy walk over the items at a font size
WalkAt(f) == _try_fit_content_with_font(content, usable_width, usable_height, f)

\* the font size tried at step k: 14 first, 8 last
SizeAtStep(k) == 15 - k

\* C20 (stop rule): the sizes 14, 13, ..., 8 are tried in this order and the
\* fitter returns at the first one at which the greedy walk places at least
\* min(3, len(items)) items; the result is the items the walk placed at that
\* size, the summary of the remaining items (empty if none remain) and that
\* size.  An empty item list returns no items, an empty summary and size 14.
C20_StopAtFirstSizeWithEnough ==
    Returned =>
        /\ \A k \in 1..7 :
              ( /\ Len(WalkAt(SizeAtStep(k)).fitted) >= Min(3, Len(content))
                /\ \A j \in 1..(k - 1) :
                      Len(WalkAt(SizeAtStep(j)).fitted) < Min(3, Len(content)) ) =>
                  /\ ~fallback
                  /\ optimal_font_size = SizeAtStep(k)
                  /\ fitted_content = WalkAt(SizeAtStep(k)).fitted
                  /\ overflow_summary =
                        IF Len(fitted_content) = Len(content) THEN <<>>
                        ELSE _create_perfect_overflow_summary(
                                 SubSeq(content, Len(fitted_content) + 1, Len(content)))
        /\ content = <<>> =>
              /\ fitted_content = <<>>
              /\ overflow_summary = <<>>
              /\ optimal_font_size = 14

\* the fitter went past size 14 and stopped at a smaller size with three
\* items placed and an item left for the summary
C20_Witness ==
    /\ Returned /\ ~fallback
    /\ optimal_font_size < 14
    /\ Len(fitted_content) >= 3
    /\ Len(fitted_content) < Len(content)
    /\ overflow_summary # <<>>

\* C21: the compression fallback is entered only when not even one item
\* fits at the smallest candidate size 8; if at least one item fits at
\* size 8 and no larger size stopped the loop, the fitter stops at size 8
\* and returns the items that fit there, text unchanged.
C21_CompressionOnlyWhenNothingFits ==
    Returned =>
        /\ fallback => WalkAt(8).fitted = <<>>
        /\ ( /\ WalkAt(8).fitted # <<>>
             /\ \A k \in 1..6 :
                   Len(WalkAt(SizeAtStep(k)).fitted) < Min(3, Len(content)) ) =>
               /\ optimal_font_size = 8
               /\ fitted_content = WalkAt(8).fitted

-----------------------------------------------------------------------------
(* Properties of the layout selector (SpecLayout) *)

\* C10: _auto_select_layout returns one of four names, decided by the image
\* being available (a non-empty path of an existing file), the total length
\* of the items and their number: no image -> content_only; length < 200 or
\* at most 3 items -> image_top_content_bottom; otherwise length < 500 or at
\* most 6 items -> content_left_image_right; otherwise
\* image_left_content_right.
C10_LayoutRule ==
    Returned =>
        LET available == image_path # "" /\ image_path \in files
            n == Len(content)
            total == Len(Join(content, <<>>))
        IN  /\ layout_type \in {"content_only", "image_top_content_bottom",
                               "content_left_image_right", "image_left_content_right"}
            /\ ~available => layout_type = "content_only"
            /\ (available /\ (total < 200 \/ n <= 3)) =>
                  layout_type = "image_top_content_bottom"
            /\ (available /\ ~(total < 200 \/ n <= 3) /\ (total < 500 \/ n <= 6)) =>
                  layout_type = "content_left_image_right"
            /\ (available /\ ~(total < 200 \/ n <= 3) /\ ~(total < 500 \/ n <= 6)) =>
                  layout_type = "image_left_content_right"

\* seven items of 500 characters in all, with an image: the last branch
C10_Witness ==
    /\ Returned
    /\ Len(content) = 7 /\ Len(Join(content, <<>>)) = 500
    /\ image_path \in files
    /\ layout_type = "image_left_content_right"

-----------------------------------------------------------------------------
(* Properties of the smart image-content slide (SpecSlide) *)

\* the last call added a slide
SlideAdded == pc = "returned" /\ presentation.slides # <<>>

LastSlide == presentation.slides[Len(presentation.slides)]

\* the last call applied a layout config to the slide it added
LayoutApplied == SlideAdded /\ LastSlide.config # <<>>

AppliedConfig == LastSlide.config[1]

ShapesOfKind(kind) ==
    { LastSlide.shapes[i] : i \in { j \in DOMAIN LastSlide.shapes :
                                        LastSlide.shapes[j].kind = kind } }

\* the shape covers exactly the area
ShapeIsArea(shape, area) ==
    /\ shape.left = Inches(area.x)
    /\ shape.top = Inches(area.y)
    /\ shape.width = Inches(area.width)
    /\ shape.height = Inches(area.height)

\* the shape lies inside the area
ShapeInArea(shape, area) ==
    /\ shape.left >= Inches(area.x)
    /\ shape.top >= Inches(area.y)
    /\ shape.left + shape.width <= Inches(area.x + area.width)
    /\ shape.top + shape.height <= Inches(area.y + area.height)

ThreeLayouts == {"image_top_content_bottom", "content_left_image_right",
                 "image_left_content_right"}

AreasDisjoint(a, b) ==
    \/ a.x + a.width <= b.x
    \/ b.x + b.width <= a.x
    \/ a.y + a.height <= b.y
    \/ b.y + b.height <= a.y

AreaInCanvas(a) ==
    /\ a.x >= 0 /\ a.y >= 0
    /\ a.width >= 0 /\ a.height >= 0
    /\ a.x + a.width <= CanvasWidth
    /\ a.y + a.height <= CanvasHeight

\* C12 (areas of a layout): in every layout of layout_configs the
\* content_area and the image_area have disjoint interiors and lie within
\* the 10 x 7.5 inch canvas; so do the two areas of the config applied to a
\* slide.
C12_AreasDisjointInCanvas ==
    /\ \A name \in DOMAIN layout_configs :
          /\ AreasDisjoint(layout_configs[name].content_area, layout_configs[name].image_area)
          /\ AreaInCanvas(layout_configs[name].content_area)
          /\ AreaInCanvas(layout_configs[name].image_area)
    /\ LayoutApplied =>
          /\ AreasDisjoint(AppliedConfig.content_area, AppliedConfig.image_area)
          /\ AreaInCanvas(AppliedConfig.content_area)
          /\ AreaInCanvas(AppliedConfig.image_area)

\* a slide of the layout whose areas touch (the image area ends at 4.2 inch,
\* where the content area starts), with both areas filled
C12_Witness ==
    /\ LayoutApplied
    /\ AppliedConfig = layout_configs["image_top_content_bottom"]
    /\ AppliedConfig.image_area.y + AppliedConfig.image_area.height
          = AppliedConfig.content_area.y
    /\ ShapesOfKind("content") # {}
    /\ ShapesOfKind("picture") # {}

\* the image file at image_path was a readable image in the last call
ImagePlaced ==
    /\ LayoutApplied
    /\ result = "True"
    /\ image_path # ""
    /\ Readable(image_path, files, image_size)

ThePicture == CHOOSE s \in ShapesOfKind("picture") : TRUE
TheFrame == CHOOSE s \in ShapesOfKind("frame") : TRUE

Abs(n) == IF n < 0 THEN -n ELSE n

C14_FrameFollowsPicture ==
    ImagePlaced =>
        /\ Cardinality(ShapesOfKind("frame")) = 1
        /\ TheFrame.left = ThePicture.left - 45720
        /\ TheFrame.top = ThePicture.top - 45720
        /\ TheFrame.width = ThePicture.width + 2 * 45720
        /\ TheFrame.height = ThePicture.height + 2 * 45720
        /\ ~ShapeIsArea(TheFrame, AppliedConfig.image_area)

\* a picture lower than its area, whose frame is lower than the area too
C14_Witness ==
    /\ ImagePlaced
    /\ ThePicture.width = Inches(AppliedConfig.image_area.width)
    /\ ThePicture.height < Inches(AppliedConfig.image_area.height) - 2 * 45720
    /\ TheFrame.height < Inches(AppliedConfig.image_area.height)

\* C15 (missing image): when the image path names a missing or unreadable
\* file, the call on an open presentation adds the slide with its content
\* box, puts the dashed placeholder block over the image area with its
\* caption, and returns True.
C15_MissingImagePlaceholder ==
    (/\ pc = "returned"
     /\ presentation.created
     /\ image_path # ""
     /\ ~Readable(image_path, files, image_size)) =>
        /\ result = "True"
        /\ LayoutApplied
        /\ ShapesOfKind("content") # {}
        /\ \E s \in ShapesOfKind("placeholder") :
              s.dash_style = 2 /\ ShapeIsArea(s, AppliedConfig.image_area)
        /\ ShapesOfKind("caption") # {}
        /\ ShapesOfKind("picture") = {}

\* C16 (absent image = missing image): with an empty image path the slide
\* gets the same elements as with the path of a missing file, that is the
\* content box and the placeholder block over the image area.
C16_EmptyPathAsMissingFile ==
    (LayoutApplied /\ result = "True" /\ image_path = "") =>
        /\ LastSlide.shapes =
              _apply_smart_layout(AppliedConfig, content, "missing.png", files,
                                  image_size, current_template).shapes
        /\ \E s \in ShapesOfKind("placeholder") :
              ShapeIsArea(s, AppliedConfig.image_area)

\* the shape and the area share some interior point
ShapeOverlapsArea(shape, area) ==
    /\ shape.left < Inches(area.x + area.width)
    /\ Inches(area.x) < shape.left + shape.width
    /\ shape.top < Inches(area.y + area.height)
    /\ Inches(area.y) < shape.top + shape.height

\* C23 (frame clear of the text): for every configured layout and every
\* aspect ratio of the image, the background frame placed around the
\* picture does not intersect the content_area of the same layout.
C23_FrameClearOfContent ==
    ImagePlaced =>
        \A s \in ShapesOfKind("frame") :
            ~ShapeOverlapsArea(s, AppliedConfig.content_area)

\* the shapes that _add_image_to_area puts in the image_area
ImageAreaShapes ==
    UNION { ShapesOfKind(kind) : kind \in {"picture", "frame", "placeholder", "caption"} }

\* C24 (the selector's layouts are configured): with layout_type "auto" the
\* name chosen by _auto_select_layout is a key of layout_configs and the
\* config applied to the slide is the one of that name; when the selector
\* names "content_only", nothing is placed in an image area.
C24_AutoLayoutIsConfigured ==
    (SlideAdded /\ layout_arg = "auto" /\ result = "True") =>
        /\ layout_type \in DOMAIN layout_configs
        /\ LayoutApplied
        /\ AppliedConfig = layout_configs[layout_type]
        /\ layout_type = "content_only" => ImageAreaShapes = {}

\* C25 (template is a key): after create_new_presentation, called directly
\* or by create_from_structured_data with any template or theme name,
\* current_template is a key of the templates table (education, business,
\* modern), so that a lookup templates[current_template] succeeds.
C25_TemplateIsKey ==
    presentation.created => current_template \in TemplateKeys

\* C26 (slide count follows the return value): get_slide_count is 0 while
\* no presentation was created, an add-slide operation that returns False
\* leaves it unchanged, and one that returns True raises it by exactly one.
C26_CountFollowsResult ==
    /\ [](~presentation.created => get_slide_count(presentation) = 0)
    /\ [][ pc' = "returned" =>
             get_slide_count(presentation)' =
                 get_slide_count(presentation) + (IF result' = "True" THEN 1 ELSE 0) ]_vars

-----------------------------------------------------------------------------
(* Properties of the content box (SpecContent) *)

\* the content boxes of the last slide in which a summary was rendered
BoxesWithSummary ==
    { s \in ShapesOfKind("content") :
        \E i \in DOMAIN s.paragraphs : s.paragraphs[i].kind = "summary" }

SummarySizes(box) ==
    { box.paragraphs[i].size : i \in { j \in DOMAIN box.paragraphs :
                                         box.paragraphs[j].kind = "summary" } }

ItemSizes(box) ==
    { box.paragraphs[i].size : i \in { j \in DOMAIN box.paragraphs :
                                         box.paragraphs[j].kind = "item" } }

\* C22 as stated: a rendered overflow summary has a font size strictly
\* smaller than the font size of the placed items, for every chosen font
\* size in 8..14.
C22_SummaryStrictlySmaller ==
    SlideAdded =>
        \A box \in BoxesWithSummary :
            \A small \in SummarySizes(box), size \in ItemSizes(box) : small < size

\* C22 as amended: a rendered overflow summary is italic and has the font
\* size max(8, s - 2) for the font size s of the placed items: two points
\* smaller for s in 10..14, one point smaller for s = 9, and the same size
\* for s = 8.
C22_SummarySmallerDownToEight ==
    SlideAdded =>
        \A box \in BoxesWithSummary :
            /\ \A i \in DOMAIN box.paragraphs :
                  box.paragraphs[i].kind = "summary" => box.paragraphs[i].italic
            /\ \A small \in SummarySizes(box) :
                  /\ small >= 8
                  /\ small = IF optimal_font_size >= 10 THEN optimal_font_size - 2 ELSE 8
                  /\ \A size \in ItemSizes(box) :
                        /\ size = optimal_font_size
                        /\ size > 8 => small < size
                        /\ size = 8 => small = size

\* a summary rendered below items of a font size above 8
C22_Witness ==
    /\ SlideAdded
    /\ \E box \in BoxesWithSummary :
          /\ ItemSizes(box) # {}
          /\ \A size \in ItemSizes(box) : size > 8

-----------------------------------------------------------------------------
(* Properties of the deck (SpecDeck) *)

DeckBuilt == pc = "returned" /\ "title" \in DOMAIN presentation_data

Entries == Get(presentation_data, "slides", <<>>)

WithConclusion == Get(presentation_data, "add_conclusion", TRUE)

\* C17 (order and count of the deck): the title slide comes first, then
\* exactly one slide for each entry of the slides list in input order,
\* whatever the type of the entry, then the conclusion slide when
\* add_conclusion is true or absent; the deck has
\* 1 + len(slides) + (1 if add_conclusion else 0) slides.
C17_OneSlidePerEntry ==
    DeckBuilt =>
        /\ Len(presentation.slides)
              = 1 + Len(Entries) + (IF WithConclusion THEN 1 ELSE 0)
        /\ presentation.slides[1].kind = "title"
        /\ \A i \in 1..Len(Entries) : presentation.slides[1 + i].entry = i
        /\ WithConclusion =>
              presentation.slides[Len(presentation.slides)].kind = "conclusion"

\* C18 (a failed slide does not stop the deck): when the add_* operation
\* called for the title or for an entry returned False, every later entry
\* of a handled type still has its slide, after the failed one, the
\* conclusion slide is still added last when asked for, and
\* create_from_structured_data returns True.
C18_FailureDoesNotAbort ==
    DeckBuilt =>
        \A k \in DOMAIN presentation.slides :
            (presentation.slides[k].kind # "conclusion" /\ ~presentation.slides[k].ok) =>
                /\ result = "True"
                /\ \A j \in (presentation.slides[k].entry + 1)..Len(Entries) :
                      Get(Entries[j], "type", "content")
                            \in {"content", "two_column", "image", "chart", "table"} =>
                          \E m \in DOMAIN presentation.slides :
                              m > k /\ presentation.slides[m].entry = j
                /\ WithConclusion =>
                      presentation.slides[Len(presentation.slides)].kind = "conclusion"

\* with a template of the table, the table of the first entry failed, the
\* slide of a later entry was added and succeeded, and the conclusion is last
C18_Witness ==
    /\ DeckBuilt
    /\ current_template \in TemplateKeys
    /\ result = "True"
    /\ Len(presentation.slides) >= 4
    /\ presentation.slides[2].entry = 1
    /\ presentation.slides[2].kind = "table"
    /\ ~presentation.slides[2].ok
    /\ presentation.slides[3].entry = 2
    /\ presentation.slides[3].ok
    /\ presentation.slides[Len(presentation.slides)].kind = "conclusion"

-----------------------------------------------------------------------------
(* Properties of the generated presentation (SpecGenerate) *)

Generated == pc = "returned" /\ "outline" \in DOMAIN llm_responses

\* the outline call raised, or its text did not parse as JSON
OutlineFailed == Generated /\ llm_responses.outline.kind # "json"

\* the outline whose slides the content calls are made for
UsedOutline == _generate_enhanced_outline(context, llm_responses.outline)

\* a content call that was made raised
ContentCallFailed ==
    /\ Generated
    /\ LET outline_slides == Get(UsedOutline, "slides", <<>>)
       IN  \E i \in DOMAIN outline_slides :
               /\ \A j \in 1..i : IsDict(outline_slides[j])
               /\ Get(outline_slides[i], "type", "None") # "title"
               /\ llm_responses.content[i].kind = "raise"

\* type, title and items of each slide of a list
SlideTexts(slides) ==
    [ i \in DOMAIN slides |->
        [ type |-> Get(slides[i], "type", ""),
          title |-> Get(slides[i], "title", <<>>),
          content |-> Get(slides[i], "content", <<>>) ] ]

\* C19: whenever a language-model call fails or the outline response does
\* not parse as JSON, the returned slide list is the fixed generic template
\* of three content slides, the same on every such failure
C19_FailureGivesFixedTemplate ==
    (OutlineFailed \/ ContentCallFailed) =>
        SlideTexts(presentation_data.slides) = SlideTexts(_create_fallback_presentation.slides)

-----------------------------------------------------------------------------
(* Properties of the chat flow (SpecChat) *)

\* C27 (questions phase has questions): whenever generation_phase is
\* "questions", current_questions is not empty, so that the question form
\* is shown.
C27_QuestionsPhaseHasQuestions ==
    generation_phase = "questions" => current_questions # <<>>

\* C28 (generation completes): a run of the chat interface that starts with
\* generation_phase = "generation" ends with generation_phase = "complete",
\* whether the generation succeeds, falls back or raises.
C28_GenerationCompletes ==
    [][ (generation_phase = "generation" /\ pc' \in {"chat", "auto_generate"}) =>
            generation_phase' = "complete" ]_vars

\* the generation ran without a generator, raised, and the phase is complete
C28_Witness ==
    /\ pc = "auto_generate"
    /\ generation_phase = "complete"
    /\ ~ai_generator
    /\ ~NonEmptyDict(presentation_data)

-----------------------------------------------------------------------------
(* Properties of the editor (SpecEditor) *)

\* C29 (index in range): while a presentation that had at least one slide
\* is edited, after any add, duplicate, delete and navigate operations
\* 0 <= pp_current_slide_index < number of slides, and there is at least
\* one slide.
C29_IndexInRange ==
    (Editing /\ Get(presentation_data, "slides", <<>>) # <<>>) =>
        /\ Len(pp_editor_data.slides) >= 1
        /\ 0 <= pp_current_slide_index
        /\ pp_current_slide_index < Len(pp_editor_data.slides)

\* the last of several slides was deleted while it was the current one
C29_Witness ==
    /\ Editing
    /\ Len(Get(presentation_data, "slides", <<>>)) = 3
    /\ Len(pp_editor_data.slides) = 2
    /\ pp_current_slide_index = 1
    /\ \A i \in 1..2 : pp_editor_data.slides[i].id = i - 1

\* C30 (unique ids): while a presentation is edited, after any add,
\* duplicate and delete operations no two slides have the same id.
C30_SlideIdsUnique ==
    Editing =>
        \A i, j \in DOMAIN pp_editor_data.slides :
            pp_editor_data.slides[i].id = pp_editor_data.slides[j].id => i = j

====
